---- MODULE Spec2Model ----
(***************************************************************************)
(* Model of rust-bot-plugin's AgentManager (plugin/interface/mod.rs): the  *)
(* dispatcher loop, the completion-handler loop, the workers in the join   *)
(* set, the delay queue, the task registry and the agent's retry delays;   *)
(* and of the FallbackEntryStore (plugin/store/fallback_entry_store): the  *)
(* revision cells of the sled tree and the clients that call the store,    *)
(* one adapter call per step.                                              *)
(*                                                                         *)
(* Abstractions: wall-clock time is replaced by a nondeterministic expiry  *)
(* of delay-queue entries; the timestamps carried by TaskResult and by the *)
(* terminal TaskState values are dropped; tokio task ids are kept unique   *)
(* among the ids the state still refers to.                                *)
(***************************************************************************)
EXTENDS Naturals, Integers, Sequences, FiniteSets, TLC

\* ------------------------------------------------------------------ bounds
\* number of task instances the agent can declare
NumTasks == 2
\* a worker is let to return Err only while its task's retry delay is at
\* most this (keeps the retry delays of the manager model small)
ErrDelayCap == 1
\* in SpecBackoff a task may fail only while every other task's retry delay
\* is at most this (one long failure streak at a time)
StreakCap == 2
\* the largest value of the revision counter: stands for u64::MAX
MaxRev == 3
\* how many writes per key the write log remembers
MaxLog == 3
\* how many managers a caller of the library starts
MaxStarts == 2
\* how many file system events the host handles in a run
MaxEvents == 3

Tasks == 1..NumTasks

\* ------------------------------------------------------- program constants
initial_retry_delay == 1
update_interval_in_secs == 3
max_interval == 60 * 5
backoff_factor == 2

VARIABLES
    flag,                 \* CANCELLATION_FLAG
    declared,             \* task instances the agent currently enumerates
    retry_delay_in_secs,  \* agent.retry_delay_in_secs : HashMap<Task,i64>
    task_registry,        \* HashMap<Task, TaskState>
    join_set,             \* JoinSet: workers [id, task, status]
    delay_queue,          \* DelayQueue: [waiting: entries whose delay runs,
                          \*   due: expired entries in expiry order],
                          \*   an entry is [task, result, delay]
    dqOwner,              \* holder of the delay_queue mutex
    jsOwner,              \* holder of the join_set mutex
    trOwner,              \* holder of the task_registry mutex
    agentWriter,          \* holder of the agent write lock
    pcA,                  \* dispatcher loop position
    expired,              \* dispatcher local: the expired TaskResult
    tasks_pending,        \* dispatcher local: tasks_pending
    fns,                  \* dispatcher local: keys of fns
    pcB,                  \* completion handler position
    completed,            \* completion handler local: drained completions
    rev_index,            \* sled cells rev_index_<K>: the revision, or NoRev
    entries,              \* sled cells key_<K>_rev_<i>: the Entry, or NoneEntry
    writes,               \* history: the data written to K since K was fresh
    cl,                   \* per store client: the call in progress, its
                          \*   locals, its result, and the call before it
    subscriber,           \* per sled subscriber: its prefix and the events
                          \*   delivered to it, oldest first
    lib,                  \* per loaded image of the plugin library: its
                          \*   statics and the handles open on it
    host                  \* the host: its plugin map, the position of the
                          \*   thread that loads plugins, what it has done

storeVars == <<rev_index, entries, writes, cl, subscriber>>

libVars == <<lib, host>>

mgrVars == <<flag, declared, retry_delay_in_secs, task_registry, join_set,
             delay_queue, dqOwner, jsOwner, trOwner, agentWriter,
             pcA, expired, tasks_pending, fns, pcB, completed>>

vars == <<mgrVars, storeVars, libVars>>

agentVars == <<declared, retry_delay_in_secs>>
lockVars == <<dqOwner, jsOwner, trOwner, agentWriter>>
localsA == <<expired, tasks_pending, fns>>

NoEntry == [task |-> 0, result |-> "none", delay |-> 0]

\* ------------------------------------------------------------ TaskState
Absent == [state |-> "Absent", id |-> 0]
Pending(id) == [state |-> "Pending", id |-> id]
Resolved == [state |-> "Resolved", id |-> 0]
Failed == [state |-> "Failed", id |-> 0]
Cancelled == [state |-> "Cancelled", id |-> 0]
Panicked == [state |-> "Panicked", id |-> 0]

\* ---------------------------------------------------------------- agent
\* get_tasks without the pending filter
get_tasks_unfiltered(pending) == declared

\* Agent::get_tasks: every declared task instance that is not pending
get_tasks(pending) == declared \ pending

get_update_interval_in_secs(t) == update_interval_in_secs

get_retry_delay_in_secs(rd, t) ==
    IF t \in DOMAIN rd THEN rd[t] ELSE initial_retry_delay

set_retry_delay_in_secs(rd, t, v) ==
    [u \in (DOMAIN rd) \cup {t} |-> IF u = t THEN v ELSE rd[u]]

reset_retry_delay(rd, t) == set_retry_delay_in_secs(rd, t, initial_retry_delay)

Min(a, b) == IF a <= b THEN a ELSE b

\* the jitter range 0..=current_retry_delay / 2
JitterRange(d) == 0..(d \div 2)

\* the backoff without .min(max_interval)
backoff_unclamped(rd, t, jitter) ==
    LET current_retry_delay == get_retry_delay_in_secs(rd, t)
    IN  set_retry_delay_in_secs(rd, t, current_retry_delay * backoff_factor + jitter)

exponential_backoff_with_jitter(rd, t, jitter) ==
    LET current_retry_delay == get_retry_delay_in_secs(rd, t)
        val == Min(current_retry_delay * backoff_factor + jitter, max_interval)
    IN  set_retry_delay_in_secs(rd, t, val)

\* ------------------------------------------------------------- mutexes
Other(p) == IF p = "A" THEN "B" ELSE "A"

\* p may take the mutex: it is free, or it was handed to p on release
CanLock(owner, p) == owner \in {"none", p}

\* tokio's Mutex is fair: on release the mutex goes to the waiting loop
Release(waiting, p) == IF waiting THEN Other(p) ELSE "none"

WaitsDqB == pcB = "lock_dq"
WaitsDqA == pcA = "lock_dq"
WaitsJsA == pcA \in {"init_lock_js", "lock_js", "exit_lock_js"}
WaitsJsB == pcB \in {"lock_js", "exit_lock_js"}
WaitsTrA == pcA \in {"init_lock_tr", "lock_tr"}
WaitsTrB == pcB = "lock_tr"

\* --------------------------------------------------------------- join set
UsedIds == {w.id : w \in join_set}
             \cup {task_registry[t].id : t \in Tasks}
             \cup {completed[i].id : i \in 1..Len(completed)}

NewId(used) == CHOOSE i \in 1..(Cardinality(used) + 1) : i \notin used

\* spawning without recording Pending(id) in the registry
SpawnAllUnrecorded(todo, tr, js, used) ==
    [tr |-> tr,
     js |-> js \cup {[id |-> Cardinality(used) + t, task |-> t, status |-> "running"] :
                       t \in todo}]

\* for (task_type, func) in fns { tr.insert(task_type, Pending(process_join_set(..))) }
RECURSIVE SpawnAll(_, _, _, _)
SpawnAll(todo, tr, js, used) ==
    IF todo = {} THEN [tr |-> tr, js |-> js]
    ELSE LET t == CHOOSE x \in todo : TRUE
             id == NewId(used)
         IN  SpawnAll(todo \ {t},
                      [tr EXCEPT ![t] = Pending(id)],
                      js \cup {[id |-> id, task |-> t, status |-> "running"]},
                      used \cup {id})

\* poll_completed_tasks: every finished worker leaves the set
Done(js) == {w \in js : w.status # "running"}

Orders(S) == {s \in [1..Cardinality(S) -> S] :
                 \A i, j \in 1..Cardinality(S) : i # j => s[i] # s[j]}

\* ------------------------------------------------------------ store state
\* the logical keys; NoKey is the key of a client that has made no call
Keys == {<<"k">>}
NoKey == << >>
Clients == {1, 2}
Revs == 0..MaxRev

\* rev_index_<K> is absent
NoRev == -1

\* Entry.data: Ok(value) or Err(EntryError); the timestamp is dropped
OkData(v) == [ok |-> TRUE, v |-> v]
ErrData(v) == [ok |-> FALSE, v |-> v]
Data == {OkData("a"), OkData("b"), ErrData("x")}

\* sled returned None for the cell
NoneEntry == ErrData("None")

\* Entry { data: Err(EntryError::KeyDoesNotExist(..)), .. }
KeyDoesNotExist == ErrData("KeyDoesNotExist")

\* the result of a store call: status is "ok", "fail" (an anyhow error) or
\* "panic"; entry, flag and n hold an Entry, a bool or a u64 result
NoRet == [status |-> "none", entry |-> NoneEntry, flag |-> FALSE, n |-> 0]
RetEntry(e) == [status |-> "ok", entry |-> e, flag |-> FALSE, n |-> 0]
RetFlag(b) == [status |-> "ok", entry |-> NoneEntry, flag |-> b, n |-> 0]
RetCount(n) == [status |-> "ok", entry |-> NoneEntry, flag |-> FALSE, n |-> n]
RetFail == [status |-> "fail", entry |-> NoneEntry, flag |-> FALSE, n |-> 0]
RetPanic == [status |-> "panic", entry |-> NoneEntry, flag |-> FALSE, n |-> 0]

\* what is remembered of the call that came before the current one
NoPrev == [op |-> "none", key |-> NoKey, data |-> NoneEntry, ret |-> NoRet,
           prevOk |-> NoneEntry, rev0 |-> NoRev]

IdleClient ==
    [pc |-> "idle", op |-> "none", key |-> NoKey, data |-> NoneEntry,
     idx |-> 0, ovf |-> FALSE, i |-> 0, found |-> NoRet, cnt |-> 0,
     wrote |-> FALSE, ret |-> NoRet, prevOk |-> NoneEntry, rev0 |-> NoRev,
     prev |-> NoPrev]

StoreInit ==
    /\ rev_index = [k \in Keys |-> NoRev]
    /\ entries = [k \in Keys |-> [i \in Revs |-> NoneEntry]]
    /\ writes = [k \in Keys |-> [n |-> 0, seq |-> << >>]]
    /\ cl = [p \in Clients |-> IdleClient]
    /\ subscriber = << >>

\* no sled tree has been handed to the plugin yet
StoreUnopened ==
    /\ rev_index = << >>
    /\ entries = << >>
    /\ writes = << >>
    /\ cl = << >>
    /\ subscriber = << >>

\* no image of the library is loaded and no host is looked at
HostAbsent ==
    /\ lib = << >>
    /\ host = << >>

\* ------------------------------------------------------------------- Init
ManagerInit ==
    /\ flag = FALSE
    /\ declared \in {{}, Tasks}
    /\ retry_delay_in_secs = << >>
    /\ task_registry = [t \in Tasks |-> Absent]
    /\ join_set = {}
    /\ delay_queue = [waiting |-> {}, due |-> << >>]
    /\ dqOwner = "none"
    /\ jsOwner = "none"
    /\ trOwner = "none"
    /\ agentWriter = "none"
    /\ pcA = "init"
    /\ expired = NoEntry
    /\ tasks_pending = {}
    /\ fns = {}
    /\ pcB = "loop"
    /\ completed = << >>

Init == StoreUnopened /\ ManagerInit /\ HostAbsent

\* a loop condition that lost its negation
LoopCondInverted == flag

\* the loop condition of both loops: !CANCELLATION_FLAG.load(SeqCst)
LoopCond == ~flag

\* ------------------------------------------------------------- dispatcher
\* let fns = agent.read().await.get_tasks(HashSet::new());
A_Init ==
    /\ pcA = "init"
    /\ agentWriter = "none"
    /\ fns' = get_tasks({})
    /\ pcA' = IF fns' # {} THEN "init_lock_tr" ELSE "loop"
    /\ UNCHANGED <<libVars, storeVars, flag, agentVars, task_registry, join_set, delay_queue,
                   lockVars, expired, tasks_pending, pcB, completed>>

A_InitLockTr ==
    /\ pcA = "init_lock_tr"
    /\ CanLock(trOwner, "A")
    /\ trOwner' = "A"
    /\ pcA' = "init_lock_js"
    /\ UNCHANGED <<libVars, storeVars, flag, agentVars, task_registry, join_set, delay_queue,
                   dqOwner, jsOwner, agentWriter, localsA, pcB, completed>>

A_InitLockJs ==
    /\ pcA = "init_lock_js"
    /\ CanLock(jsOwner, "A")
    /\ jsOwner' = "A"
    /\ pcA' = "init_spawn"
    /\ UNCHANGED <<libVars, storeVars, flag, agentVars, task_registry, join_set, delay_queue,
                   dqOwner, trOwner, agentWriter, localsA, pcB, completed>>

A_InitSpawn ==
    /\ pcA = "init_spawn"
    /\ LET r == SpawnAll(fns, task_registry, join_set, UsedIds)
       IN  /\ task_registry' = r.tr
           /\ join_set' = r.js
    /\ fns' = {}
    /\ jsOwner' = Release(WaitsJsB, "A")
    /\ trOwner' = Release(WaitsTrB, "A")
    /\ pcA' = "loop"
    /\ UNCHANGED <<libVars, storeVars, flag, agentVars, delay_queue, dqOwner, agentWriter,
                   expired, tasks_pending, pcB, completed>>

\* while !CANCELLATION_FLAG.load(Ordering::SeqCst)
A_Loop ==
    /\ pcA = "loop"
    /\ pcA' = IF LoopCond THEN "lock_dq" ELSE "exit_lock_js"
    /\ UNCHANGED <<libVars, storeVars, flag, agentVars, task_registry, join_set, delay_queue,
                   lockVars, localsA, pcB, completed>>

A_LockDq ==
    /\ pcA = "lock_dq"
    /\ CanLock(dqOwner, "A")
    /\ dqOwner' = "A"
    /\ pcA' = "wait"
    /\ UNCHANGED <<libVars, storeVars, flag, agentVars, task_registry, join_set, delay_queue,
                   jsOwner, trOwner, agentWriter, localsA, pcB, completed>>

\* timeout(100ms, &mut *delay_queue) returns the first expired entry
A_WaitExpired ==
    /\ pcA = "wait"
    /\ delay_queue.due # << >>
    /\ expired' = Head(delay_queue.due)
    /\ delay_queue' = [delay_queue EXCEPT !.due = Tail(@)]
    /\ pcA' = "lock_tr"
    /\ UNCHANGED <<libVars, storeVars, flag, agentVars, task_registry, join_set, lockVars,
                   tasks_pending, fns, pcB, completed>>

\* timeout(100ms, ..) elapses with no expired entry
A_WaitTimeout ==
    /\ pcA = "wait"
    /\ delay_queue.due = << >>
    /\ pcA' = "sleep"
    /\ UNCHANGED <<libVars, storeVars, flag, agentVars, task_registry, join_set, delay_queue,
                   lockVars, localsA, pcB, completed>>

\* a filter that finds no registry entry pending
PendingInNone(tr) == {}

\* tasks_pending: the registry keys whose state is Pending(_)
PendingIn(tr) == {t \in Tasks : tr[t].state = "Pending"}

\* the registry entry written for an expired result
ExpiredState(e) == IF e.result = "ok" THEN Resolved ELSE Failed

\* let mut tr = task_registry.lock().await; tr.insert(..); tasks_pending = ..
A_LockTr ==
    /\ pcA = "lock_tr"
    /\ CanLock(trOwner, "A")
    /\ trOwner' = "A"
    /\ task_registry' = [task_registry EXCEPT ![expired.task] = ExpiredState(expired)]
    /\ tasks_pending' = PendingIn(task_registry')
    /\ expired' = NoEntry
    /\ pcA' = "get_tasks"
    /\ UNCHANGED <<libVars, storeVars, flag, agentVars, join_set, delay_queue, dqOwner, jsOwner,
                   agentWriter, fns, pcB, completed>>

\* let fns = agent.read().await.get_tasks(tasks_pending);
A_GetTasks ==
    /\ pcA = "get_tasks"
    /\ agentWriter = "none"
    /\ fns' = get_tasks(tasks_pending)
    /\ tasks_pending' = {}
    /\ IF fns' # {}
         THEN /\ pcA' = "lock_js"
              /\ UNCHANGED trOwner
         ELSE /\ pcA' = "sleep"
              /\ trOwner' = Release(WaitsTrB, "A")
    /\ UNCHANGED <<libVars, storeVars, flag, agentVars, task_registry, join_set, delay_queue,
                   dqOwner, jsOwner, agentWriter, expired, pcB, completed>>

A_LockJs ==
    /\ pcA = "lock_js"
    /\ CanLock(jsOwner, "A")
    /\ jsOwner' = "A"
    /\ pcA' = "spawn"
    /\ UNCHANGED <<libVars, storeVars, flag, agentVars, task_registry, join_set, delay_queue,
                   dqOwner, trOwner, agentWriter, localsA, pcB, completed>>

A_Spawn ==
    /\ pcA = "spawn"
    /\ LET r == SpawnAll(fns, task_registry, join_set, UsedIds)
       IN  /\ task_registry' = r.tr
           /\ join_set' = r.js
    /\ fns' = {}
    /\ jsOwner' = Release(WaitsJsB, "A")
    /\ trOwner' = Release(WaitsTrB, "A")
    /\ pcA' = "sleep"
    /\ UNCHANGED <<libVars, storeVars, flag, agentVars, delay_queue, dqOwner, agentWriter,
                   expired, tasks_pending, pcB, completed>>

\* tokio::time::sleep(100ms); the delay_queue guard is dropped at the end of
\* the loop body
A_Sleep ==
    /\ pcA = "sleep"
    /\ dqOwner' = Release(WaitsDqB, "A")
    /\ pcA' = "loop"
    /\ UNCHANGED <<libVars, storeVars, flag, agentVars, task_registry, join_set, delay_queue,
                   jsOwner, trOwner, agentWriter, localsA, pcB, completed>>

A_ExitLockJs ==
    /\ pcA = "exit_lock_js"
    /\ CanLock(jsOwner, "A")
    /\ jsOwner' = "A"
    /\ pcA' = "shutdown"
    /\ UNCHANGED <<libVars, storeVars, flag, agentVars, task_registry, join_set, delay_queue,
                   dqOwner, trOwner, agentWriter, localsA, pcB, completed>>

\* a shutdown that leaves the workers in the set
shutdown_nothing(js) == js

\* JoinSet::shutdown: aborts every worker and awaits the set until it is
\* empty
shutdown(js) == {}

\* j_s.shutdown().await
A_Shutdown ==
    /\ pcA = "shutdown"
    /\ join_set' = shutdown(join_set)
    /\ jsOwner' = Release(WaitsJsB, "A")
    /\ pcA' = "done"
    /\ UNCHANGED <<libVars, storeVars, flag, agentVars, task_registry, delay_queue, dqOwner,
                   trOwner, agentWriter, localsA, pcB, completed>>

Dispatcher ==
    \/ A_Init \/ A_InitLockTr \/ A_InitLockJs \/ A_InitSpawn
    \/ A_Loop \/ A_LockDq \/ A_WaitExpired \/ A_WaitTimeout
    \/ A_LockTr \/ A_GetTasks \/ A_LockJs \/ A_Spawn \/ A_Sleep
    \/ A_ExitLockJs \/ A_Shutdown

\* ------------------------------------------------------ completion handler
\* where the for loop over the drained completions goes next
NextB(c) ==
    IF c = << >> THEN "sleep"
    ELSE IF Head(c).status \in {"ok", "err"} THEN "agent_write"
    ELSE "lock_tr"

\* while !CANCELLATION_FLAG.load(Ordering::SeqCst)
B_Loop ==
    /\ pcB = "loop"
    /\ pcB' = IF LoopCond THEN "lock_js" ELSE "exit_lock_js"
    /\ UNCHANGED <<libVars, storeVars, flag, agentVars, task_registry, join_set, delay_queue,
                   lockVars, pcA, localsA, completed>>

B_LockJs ==
    /\ pcB = "lock_js"
    /\ CanLock(jsOwner, "B")
    /\ jsOwner' = "B"
    /\ pcB' = "poll"
    /\ UNCHANGED <<libVars, storeVars, flag, agentVars, task_registry, join_set, delay_queue,
                   dqOwner, trOwner, agentWriter, pcA, localsA, completed>>

\* for each in poll_completed_tasks(&mut j_s).await
B_Poll ==
    /\ pcB = "poll"
    /\ completed' \in Orders(Done(join_set))
    /\ join_set' = join_set \ Done(join_set)
    /\ pcB' = NextB(completed')
    /\ UNCHANGED <<libVars, storeVars, flag, agentVars, task_registry, delay_queue, lockVars,
                   pcA, localsA>>

\* what the handler does to the agent for a completion that carries a
\* TaskResult: reset_retry_delay on Ok, exponential_backoff_with_jitter on Err
AgentUpdate(w) ==
    IF w.status = "ok"
      THEN retry_delay_in_secs' = reset_retry_delay(retry_delay_in_secs, w.task)
      ELSE \E jitter \in JitterRange(get_retry_delay_in_secs(retry_delay_in_secs, w.task)) :
              retry_delay_in_secs' =
                 exponential_backoff_with_jitter(retry_delay_in_secs, w.task, jitter)

\* let mut tmp_agent = agent.write().await; reset_retry_delay / backoff
B_AgentWrite ==
    /\ pcB = "agent_write"
    /\ agentWriter = "none"
    /\ agentWriter' = "B"
    /\ AgentUpdate(Head(completed))
    /\ pcB' = "lock_dq"
    /\ UNCHANGED <<libVars, storeVars, flag, declared, task_registry, join_set, delay_queue,
                   dqOwner, jsOwner, trOwner, pcA, localsA, completed>>

B_LockDq ==
    /\ pcB = "lock_dq"
    /\ CanLock(dqOwner, "B")
    /\ dqOwner' = "B"
    /\ pcB' = "push"
    /\ UNCHANGED <<libVars, storeVars, flag, agentVars, task_registry, join_set, delay_queue,
                   jsOwner, trOwner, agentWriter, pcA, localsA, completed>>

\* a delay that is the retry delay for Ok results too
DelayForRetryOnly(rd, w) == get_retry_delay_in_secs(rd, w.task)

\* the delay the completion is queued with
DelayFor(rd, w) ==
    IF w.status = "ok" THEN get_update_interval_in_secs(w.task)
    ELSE get_retry_delay_in_secs(rd, w.task)

\* tmp_delay_queue.inner.insert(task_result, delay_duration); both guards
\* are dropped at the end of the match arm
B_Push ==
    /\ pcB = "push"
    /\ LET w == Head(completed)
       IN  delay_queue' = [delay_queue EXCEPT !.waiting = @ \cup
              {[task |-> w.task, result |-> w.status,
                delay |-> DelayFor(retry_delay_in_secs, w)]}]
    /\ dqOwner' = Release(WaitsDqA, "B")
    /\ agentWriter' = "none"
    /\ completed' = Tail(completed)
    /\ pcB' = NextB(completed')
    /\ UNCHANGED <<libVars, storeVars, flag, agentVars, task_registry, join_set, jsOwner, trOwner,
                   pcA, localsA>>

B_LockTr ==
    /\ pcB = "lock_tr"
    /\ CanLock(trOwner, "B")
    /\ trOwner' = "B"
    /\ pcB' = "mark"
    /\ UNCHANGED <<libVars, storeVars, flag, agentVars, task_registry, join_set, delay_queue,
                   dqOwner, jsOwner, agentWriter, pcA, localsA, completed>>

\* let _ = tr.iter_mut().filter(..).map(..): the iterator chain is built
\* and dropped without being consumed, so the closure that would write
\* Cancelled / Panicked never runs and the registry is left as it was
JoinErrorUpdate(tr, w) == tr

B_Mark ==
    /\ pcB = "mark"
    /\ task_registry' = JoinErrorUpdate(task_registry, Head(completed))
    /\ trOwner' = Release(WaitsTrA, "B")
    /\ completed' = Tail(completed)
    /\ pcB' = NextB(completed')
    /\ UNCHANGED <<libVars, storeVars, flag, agentVars, join_set, delay_queue, dqOwner, jsOwner,
                   agentWriter, pcA, localsA>>

\* tokio::time::sleep(100ms); the join_set guard is dropped at the end of the
\* loop body
B_Sleep ==
    /\ pcB = "sleep"
    /\ jsOwner' = Release(WaitsJsA, "B")
    /\ pcB' = "loop"
    /\ UNCHANGED <<libVars, storeVars, flag, agentVars, task_registry, join_set, delay_queue,
                   dqOwner, trOwner, agentWriter, pcA, localsA, completed>>

B_ExitLockJs ==
    /\ pcB = "exit_lock_js"
    /\ CanLock(jsOwner, "B")
    /\ jsOwner' = "B"
    /\ pcB' = "shutdown"
    /\ UNCHANGED <<libVars, storeVars, flag, agentVars, task_registry, join_set, delay_queue,
                   dqOwner, trOwner, agentWriter, pcA, localsA, completed>>

B_Shutdown ==
    /\ pcB = "shutdown"
    /\ join_set' = shutdown(join_set)
    /\ jsOwner' = Release(WaitsJsA, "B")
    /\ pcB' = "done"
    /\ UNCHANGED <<libVars, storeVars, flag, agentVars, task_registry, delay_queue, dqOwner,
                   trOwner, agentWriter, pcA, localsA, completed>>

Handler ==
    \/ B_Loop \/ B_LockJs \/ B_Poll \/ B_AgentWrite \/ B_LockDq \/ B_Push
    \/ B_LockTr \/ B_Mark \/ B_Sleep \/ B_ExitLockJs \/ B_Shutdown

\* ----------------------------------------------------------- environment
\* a worker future returns its TaskResult (Ok or Err) or panics
WorkerFinish(w, outcome) ==
    /\ w \in join_set
    /\ w.status = "running"
    /\ outcome = "err" =>
          get_retry_delay_in_secs(retry_delay_in_secs, w.task) <= ErrDelayCap
    /\ join_set' = (join_set \ {w}) \cup {[w EXCEPT !.status = outcome]}
    /\ UNCHANGED <<libVars, storeVars, flag, agentVars, task_registry, delay_queue, lockVars,
                   pcA, localsA, pcB, completed>>

WorkerOk == \E w \in join_set : WorkerFinish(w, "ok")
WorkerErr == \E w \in join_set : WorkerFinish(w, "err")
WorkerPanic == \E w \in join_set : WorkerFinish(w, "panicked")

\* the delay of a queued result of task t elapses
Expire(t) ==
    \E e \in delay_queue.waiting :
       /\ e.task = t
       /\ delay_queue' = [waiting |-> delay_queue.waiting \ {e},
                          due |-> Append(delay_queue.due, e)]
       /\ UNCHANGED <<libVars, storeVars, flag, agentVars, task_registry, join_set, lockVars,
                      pcA, localsA, pcB, completed>>

Expiry == \E t \in Tasks : Expire(t)

\* stop(): CANCELLATION_FLAG.store(true, SeqCst)
stop ==
    /\ ~flag
    /\ flag' = TRUE
    /\ UNCHANGED <<libVars, storeVars, agentVars, task_registry, join_set, delay_queue, lockVars,
                   pcA, localsA, pcB, completed>>

\* the agent starts to enumerate its task instances (for the agents that
\* read the chain registry: the registry has been stored)
Declare ==
    /\ declared = {}
    /\ declared' = Tasks
    /\ UNCHANGED <<libVars, storeVars, flag, retry_delay_in_secs, task_registry, join_set,
                   delay_queue, lockVars, pcA, localsA, pcB, completed>>

Next ==
    \/ Dispatcher
    \/ Handler
    \/ WorkerOk
    \/ WorkerErr
    \/ WorkerPanic
    \/ Expiry
    \/ stop
    \/ Declare

Spec == Init /\ [][Next]_vars

\* the runtime keeps polling both loops, and every timer fires
Fairness ==
    /\ WF_vars(Dispatcher)
    /\ WF_vars(Handler)
    /\ \A t \in Tasks : WF_vars(Expire(t))

SpecFair == Spec /\ Fairness

\* ------------------------------------------------ the backoff on its own
\* The agent updates of the completion handler, applied to arbitrary
\* sequences of Ok and Err completions; completed holds the completion that
\* was handled last.
Completion(t, outcome) ==
    LET w == [id |-> 0, task |-> t, status |-> outcome]
    IN  /\ AgentUpdate(w)
        /\ completed' = <<w>>
        /\ UNCHANGED <<libVars, storeVars, flag, declared, task_registry, join_set, delay_queue,
                       lockVars, pcA, localsA, pcB>>

TaskSucceeds == \E t \in Tasks : Completion(t, "ok")

TaskFails ==
    \E t \in Tasks :
       /\ \A u \in Tasks \ {t} :
             get_retry_delay_in_secs(retry_delay_in_secs, u) <= StreakCap
       /\ Completion(t, "err")

NextBackoff == TaskSucceeds \/ TaskFails

SpecBackoff == Init /\ [][NextBackoff]_vars

\* ------------------------------------------------------------------ claims
WorkersOf(t) == {w \in join_set : w.task = t}

\* C1: for every task type at most one worker of that task type is in the
\* join set, in every reachable state of the manager.
C1_OneWorkerPerTask == \A t \in Tasks : Cardinality(WorkersOf(t)) <= 1

\* the dispatcher is about to re-spawn a task after an expiry while the
\* worker of another task, which the pending filter left out, is in the set
C1_Witness ==
    /\ pcA = "spawn"
    /\ \E t \in fns : \E w \in join_set : w.task # t /\ w.task \notin fns

\* C2 (as claimed): under fair scheduling, a task whose worker returned a
\* TaskResult is eventually spawned again, unless the manager is cancelled.
C2_Respawned ==
    \A t \in Tasks :
       (\E w \in WorkersOf(t) : w.status \in {"ok", "err"})
          ~> (flag \/ \E w \in WorkersOf(t) : w.status = "running")

\* C3 (as claimed): no loop holds the delay-queue mutex and the join-set
\* mutex together, nor holds one of them while it waits for the other.
C3_NeverBothLocks ==
    /\ ~(dqOwner = "A" /\ (jsOwner = "A" \/ WaitsJsA))
    /\ ~(jsOwner = "A" /\ (dqOwner = "A" \/ WaitsDqA))
    /\ ~(dqOwner = "B" /\ (jsOwner = "B" \/ WaitsJsB))
    /\ ~(jsOwner = "B" /\ (dqOwner = "B" \/ WaitsDqB))

\* C4 (as claimed): a loop that holds the agent lock neither waits for nor
\* takes the delay-queue or the join-set mutex.
C4_AgentLockNotAcross ==
    agentWriter = "B" => ~(WaitsDqB \/ WaitsJsB \/ pcB = "push")

\* C5 (as claimed): when the handler has processed the abort of a worker,
\* the registry entry that was Pending(id) for the worker's id is Panicked
\* (Cancelled for a cancelled worker).
C5_AbortRecorded ==
    [][(pcB = "mark" /\ pcB' # "mark") =>
          \A t \in Tasks :
             task_registry[t] = Pending(Head(completed).id) =>
                task_registry'[t] =
                   (IF Head(completed).status = "cancelled"
                      THEN Cancelled ELSE Panicked)]_vars

\* the registry still says Pending for t although no worker of t and no
\* result of t is left anywhere: the handler has processed the abort of
\* t's worker
AbortHandled(t) ==
    /\ task_registry[t].state = "Pending"
    /\ WorkersOf(t) = {}
    /\ \A i \in 1..Len(completed) : completed[i].task # t
    /\ \A e \in delay_queue.waiting : e.task # t
    /\ \A i \in 1..Len(delay_queue.due) : delay_queue.due[i].task # t
    /\ expired.task # t

\* C6 (as claimed): at the dispatcher's enumeration a task whose worker
\* was aborted is not counted as pending (so get_tasks returns it again);
\* stated for a manager that is not being cancelled.
C6_AbortedNotPending ==
    (~flag /\ pcA = "get_tasks") => \A t \in tasks_pending : ~AbortHandled(t)

\* C7 (as claimed): once the cancellation flag is set both loops
\* eventually exit and the join set is left empty.
C7_CancelTerminates ==
    flag ~> (pcA = "done" /\ pcB = "done" /\ join_set = {})

\* C8 (as claimed): whenever the handler has no drained completion in hand,
\* the number of Pending registry entries equals the number of workers in
\* the join set.
C8_PendingEqualsWorkers ==
    completed = << >> =>
       Cardinality(PendingIn(task_registry)) = Cardinality(join_set)

\* C8 (amended): every worker in the join set has its task's registry entry
\* at Pending with the worker's id, so there are at least as many Pending
\* entries as workers; an entry also stays Pending while the task's result
\* waits in the delay queue.
C8_WorkersArePending ==
    /\ \A w \in join_set : task_registry[w.task] = Pending(w.id)
    /\ Cardinality(PendingIn(task_registry)) >= Cardinality(join_set)
    /\ \A e \in delay_queue.waiting : task_registry[e.task].state = "Pending"
    /\ \A i \in 1..Len(delay_queue.due) :
          task_registry[delay_queue.due[i].task].state = "Pending"

\* a result waits in the delay queue, its task is Pending without a worker,
\* and another worker is in the join set
C8_Witness ==
    /\ join_set # {}
    /\ \E e \in delay_queue.waiting :
          /\ WorkersOf(e.task) = {}
          /\ task_registry[e.task].state = "Pending"

\* C9: a failure of task t replaces its retry delay d by min(300, 2*d + j)
\* with j in 0..d/2, a success sets it to 1, the delay stays within 1..300
\* and the retry delays of the other tasks are left as they were.
C9_Backoff ==
    [][LET w  == Head(completed')
           d  == get_retry_delay_in_secs(retry_delay_in_secs, w.task)
           d2 == get_retry_delay_in_secs(retry_delay_in_secs', w.task)
       IN  /\ w.status = "err" =>
                 \E j \in 0..(d \div 2) : d2 = Min(300, 2 * d + j)
           /\ w.status = "ok" => d2 = 1
           /\ d2 \in 1..300
           /\ \A u \in Tasks \ {w.task} :
                 get_retry_delay_in_secs(retry_delay_in_secs', u)
                    = get_retry_delay_in_secs(retry_delay_in_secs, u)]_vars

\* a failure has just been clamped at 300 while another task keeps a
\* backed-off delay of its own
C9_Witness ==
    /\ completed # << >>
    /\ Head(completed).status = "err"
    /\ get_retry_delay_in_secs(retry_delay_in_secs, Head(completed).task) = 300
    /\ \E u \in Tasks \ {Head(completed).task} :
          get_retry_delay_in_secs(retry_delay_in_secs, u) = 2

Exited(pc) == pc \in {"exit_lock_js", "shutdown", "done"}

\* C10: a loop leaves its while loop only in a step that finds the
\* cancellation flag set.
C10_ExitOnlyOnFlag ==
    [][/\ (Exited(pcA') /\ ~Exited(pcA)) => flag
       /\ (Exited(pcB') /\ ~Exited(pcB)) => flag]_vars

\* the flag is clear, the handler is processing a panicked worker after an
\* Err result was backed off, and both loops are still running
C10_Witness ==
    /\ ~flag
    /\ pcB = "mark"
    /\ \E t \in Tasks : get_retry_delay_in_secs(retry_delay_in_secs, t) > 1
    /\ ~Exited(pcA)
    /\ ~Exited(pcB)

\* ------------------------------------------------ the fallback entry store
\* the revisions of k that have a cell in the tree
Present(k) == {i \in Revs : entries[k][i] # NoneEntry}

\* the revisions of k whose entry is Ok
OkRevs(k) == {i \in Present(k) : entries[k][i].ok}

Max(S) == CHOOSE x \in S : \A y \in S : y <= x

\* the Ok entry of k with the highest revision, NoneEntry if there is none
LatestOk(k) ==
    IF OkRevs(k) = {} THEN NoneEntry ELSE entries[k][Max(OkRevs(k))]

\* a counter that falls back to 0 without reporting an overflow
overflowing_add_reset(v) ==
    [val |-> IF v >= 1 THEN 0 ELSE v + 1, ovf |-> FALSE]

\* u64::overflowing_add(1) on the counter's width
overflowing_add(v) == [val |-> (v + 1) % (MaxRev + 1), ovf |-> v = MaxRev]

\* a comparison that never finds the data the same
is_same_data_never(e, d) == FALSE

\* Entry::is_same_data: the data are compared, the timestamp is not
is_same_data(e, d) == e = d

\* the write log of a key after d was written to it
LogWrite(w, d) ==
    [n |-> Min(w.n + 1, MaxLog + 1),
     seq |-> IF Len(w.seq) < MaxLog THEN Append(w.seq, d)
             ELSE Append(Tail(w.seq), d)]

\* the caller's record of the call it has just finished
Summary(c) ==
    IF c.op = "none" THEN NoPrev
    ELSE [op |-> c.op, key |-> c.key, data |-> c.data, ret |-> c.ret,
          prevOk |-> c.prevOk, rev0 |-> c.rev0]

\* the locals of a client that enters a store function
Entering(p, op, k, d, pc) ==
    [pc |-> pc, op |-> op, key |-> k, data |-> d,
     idx |-> 0, ovf |-> FALSE, i |-> 0, found |-> NoRet,
     cnt |-> 0, wrote |-> FALSE, ret |-> NoRet,
     prevOk |-> LatestOk(k), rev0 |-> rev_index[k],
     prev |-> Summary(cl[p])]

Call(p, op, k, d, pc) ==
    /\ cl[p].pc = "idle"
    /\ cl' = [cl EXCEPT ![p] = Entering(p, op, k, d, pc)]
    /\ UNCHANGED <<libVars, mgrVars, rev_index, entries, writes, subscriber>>

get(p) ==
    \E k \in DOMAIN rev_index : Call(p, "get_Get", k, NoneEntry, "get_rev")

get_GetOk(p) ==
    \E k \in DOMAIN rev_index : Call(p, "get_GetOk", k, NoneEntry, "get_rev")

contains_key(p) ==
    \E k \in DOMAIN rev_index : Call(p, "contains_key", k, NoneEntry, "contains_key_rev")

insert(p) ==
    \E k \in DOMAIN rev_index, d \in Data : Call(p, "insert", k, d, "insert_rev")

\* insert_if_not_exists begins with get(key, GetOk)
insert_if_not_exists(p) ==
    \E k \in DOMAIN rev_index, d \in Data :
        Call(p, "insert_if_not_exists", k, d, "get_rev")

remove_all(p) ==
    \E k \in DOMAIN rev_index : Call(p, "remove_all", k, NoneEntry, "remove_all_rev")

\* insert returns; inside insert_if_not_exists the caller returns Ok(true)
InsertReturned(c) ==
    [c EXCEPT !.pc = "idle",
              !.ret = IF c.op = "insert_if_not_exists" THEN RetFlag(TRUE)
                      ELSE RetCount(0)]

\* an insert_if_not_exists that never inserts
GetReturnedNoInsert(c, r) ==
    IF c.op = "insert_if_not_exists"
    THEN [c EXCEPT !.pc = "idle", !.ret = RetFlag(FALSE)]
    ELSE [c EXCEPT !.pc = "idle", !.ret = r]

\* get returns r; inside insert_if_not_exists the caller goes on to insert
\* unless the Ok entry found holds the same data
GetReturned(c, r) ==
    IF c.op = "insert_if_not_exists"
    THEN IF r.status = "ok" /\ is_same_data(r.entry, c.data)
         THEN [c EXCEPT !.pc = "idle", !.ret = RetFlag(FALSE)]
         ELSE [c EXCEPT !.pc = "insert_rev", !.found = r]
    ELSE [c EXCEPT !.pc = "idle", !.ret = r]

\* a get that takes the index to be 0 whatever rev_index_<K> holds
get_rev_unread(p) ==
    LET c == cl[p]
    IN  /\ c.pc = "get_rev"
        /\ cl' = [cl EXCEPT ![p] =
                    [c EXCEPT !.idx = 0, !.i = 0,
                              !.pc = IF c.op = "get_Get" THEN "get_entry"
                                     ELSE "get_ok"]]
        /\ UNCHANGED <<libVars, mgrVars, rev_index, entries, writes, subscriber>>

\* get: read rev_index_<K>
get_rev(p) ==
    LET c == cl[p]
        r == rev_index[c.key]
        index == IF r = NoRev THEN 0 ELSE r
    IN  /\ c.pc = "get_rev"
        /\ cl' = [cl EXCEPT ![p] =
                    [c EXCEPT !.idx = index, !.i = index,
                              !.pc = IF c.op = "get_Get" THEN "get_entry"
                                     ELSE "get_ok"]]
        /\ UNCHANGED <<libVars, mgrVars, rev_index, entries, writes, subscriber>>

\* get with RetrievalMethod::Get: read key_<K>_rev_<index>
get_entry(p) ==
    LET c == cl[p]
        item == entries[c.key][c.idx]
    IN  /\ c.pc = "get_entry"
        /\ cl' = [cl EXCEPT ![p] =
                    GetReturned(c, RetEntry(IF item # NoneEntry THEN item
                                            ELSE KeyDoesNotExist))]
        /\ UNCHANGED <<libVars, mgrVars, rev_index, entries, writes, subscriber>>

\* a GetOk that gives up at the first entry that is not Ok
get_ok_no_fallback(p) ==
    LET c == cl[p]
        item == entries[c.key][c.i]
    IN  /\ c.pc = "get_ok"
        /\ cl' = [cl EXCEPT ![p] =
                    IF item # NoneEntry /\ item.ok
                    THEN GetReturned(c, RetEntry(item))
                    ELSE GetReturned(c, RetFail)]
        /\ UNCHANGED <<libVars, mgrVars, rev_index, entries, writes, subscriber>>

\* get with RetrievalMethod::GetOk: one turn of the loop from index down
get_ok(p) ==
    LET c == cl[p]
        item == entries[c.key][c.i]
    IN  /\ c.pc = "get_ok"
        /\ cl' = [cl EXCEPT ![p] =
                    IF item # NoneEntry /\ item.ok
                    THEN GetReturned(c, RetEntry(item))
                    ELSE IF item = NoneEntry \/ c.i = 0
                         THEN GetReturned(c, RetFail)
                         ELSE [c EXCEPT !.i = c.i - 1]]
        /\ UNCHANGED <<libVars, mgrVars, rev_index, entries, writes, subscriber>>

\* contains_key: read rev_index_<K>
contains_key_rev(p) ==
    LET c == cl[p]
    IN  /\ c.pc = "contains_key_rev"
        /\ cl' = [cl EXCEPT ![p] =
                    [c EXCEPT !.pc = "idle",
                              !.ret = RetFlag(rev_index[c.key] # NoRev)]]
        /\ UNCHANGED <<libVars, mgrVars, rev_index, entries, writes, subscriber>>

\* the global prefix of AGENT_STORE; keys are sequences of pieces of text
GLOBAL_PREFIX_TASK_STORE == <<"task_store_">>

REV_INDEX_PREFIX == <<"rev_index_">>

KEY_PREFIX == <<"key_">>

\* SledStore::add_global_prefix: format!("{}{}", global_prefix, key)
add_global_prefix(key) == GLOBAL_PREFIX_TASK_STORE \o key

\* the sled key of rev_index_<K>
RevIndexCell(k) == add_global_prefix(REV_INDEX_PREFIX \o k)

\* the sled key of key_<K>_rev_<i>
RevCell(k, i) == add_global_prefix(KEY_PREFIX \o k \o <<"_rev_", ToString(i)>>)

starts_with(s, pre) == Len(pre) <= Len(s) /\ SubSeq(s, 1, Len(pre)) = pre

\* sled::Event::Insert { key, value }
InsertEvent(key, value) == [kind |-> "Insert", key |-> key, value |-> value]

\* sled::Event::Remove { key }
RemoveEvent(key) == [kind |-> "Remove", key |-> key, value |-> NoneEntry]

\* sled hands an event to every subscriber whose prefix its key starts with
Deliver(subs, ev) ==
    [s \in DOMAIN subs |->
        IF starts_with(ev.key, subs[s].prefix)
        THEN [subs[s] EXCEPT !.events = Append(@, ev)]
        ELSE subs[s]]

\* what the subscribers can hold after a sled remove: whether the removal
\* of a cell that is not there is announced is left to sled
Removed(subs, key, item) ==
    IF item = NoneEntry THEN {subs, Deliver(subs, RemoveEvent(key))}
    ELSE {Deliver(subs, RemoveEvent(key))}

\* insert: read rev_index_<K> and compute next_index
insert_rev(p) ==
    LET c == cl[p]
        r == rev_index[c.key]
        next_index == IF r = NoRev THEN [val |-> 0, ovf |-> FALSE]
                      ELSE overflowing_add(r)
    IN  /\ c.pc = "insert_rev"
        /\ cl' = [cl EXCEPT ![p] =
                    [c EXCEPT !.idx = next_index.val, !.ovf = next_index.ovf,
                              !.i = MaxRev,
                              !.pc = IF next_index.ovf THEN "insert_wipe"
                                     ELSE "insert_entry"]]
        /\ UNCHANGED <<libVars, mgrVars, rev_index, entries, writes, subscriber>>

\* insert on overflow: one turn of the loop that removes key_<K>_rev_<i> from
\* the largest index down and stops at the first cell that is not there
insert_wipe(p) ==
    LET c == cl[p]
        item == entries[c.key][c.i]
    IN  /\ c.pc = "insert_wipe"
        /\ entries' = [entries EXCEPT ![c.key][c.i] = NoneEntry]
        /\ cl' = [cl EXCEPT ![p] =
                    IF item = NoneEntry \/ c.i = 0
                    THEN [c EXCEPT !.pc = "insert_entry"]
                    ELSE [c EXCEPT !.i = c.i - 1]]
        /\ subscriber' \in Removed(subscriber, RevCell(c.key, c.i), item)
        /\ UNCHANGED <<libVars, mgrVars, rev_index, writes>>

\* insert: write key_<K>_rev_<next_index>
insert_entry(p) ==
    LET c == cl[p]
    IN  /\ c.pc = "insert_entry"
        /\ entries' = [entries EXCEPT ![c.key][c.idx] = c.data]
        /\ writes' = [writes EXCEPT ![c.key] = LogWrite(@, c.data)]
        /\ cl' = [cl EXCEPT ![p] =
                    [c EXCEPT !.pc = "insert_index", !.wrote = TRUE]]
        /\ subscriber' =
              Deliver(subscriber, InsertEvent(RevCell(c.key, c.idx), c.data))
        /\ UNCHANGED <<libVars, mgrVars, rev_index>>

\* an insert that writes next_index + 1 to rev_index_<K>
insert_index_off_by_one(p) ==
    LET c == cl[p]
    IN  /\ c.pc = "insert_index"
        /\ rev_index' = [rev_index EXCEPT ![c.key] = (c.idx + 1) % (MaxRev + 1)]
        /\ cl' = [cl EXCEPT ![p] =
                    [c EXCEPT !.pc = "get_index_of_ok_result", !.i = c.idx]]
        /\ subscriber' =
              Deliver(subscriber,
                      InsertEvent(RevIndexCell(c.key), OkData(ToString(c.idx))))
        /\ UNCHANGED <<libVars, mgrVars, entries, writes>>

\* insert: write rev_index_<K>, then enter cleanup_revision_history
insert_index(p) ==
    LET c == cl[p]
    IN  /\ c.pc = "insert_index"
        /\ rev_index' = [rev_index EXCEPT ![c.key] = c.idx]
        /\ cl' = [cl EXCEPT ![p] =
                    [c EXCEPT !.pc = "get_index_of_ok_result", !.i = c.idx]]
        /\ subscriber' =
              Deliver(subscriber,
                      InsertEvent(RevIndexCell(c.key), OkData(ToString(c.idx))))
        /\ UNCHANGED <<libVars, mgrVars, entries, writes>>

\* a cleanup that removes nothing
CleanupSkipped(c, smallest_required_index) == InsertReturned(c)

\* cleanup_revision_history with smallest_required_index known: the loop
\* over (0..smallest_required_index).rev() is entered unless it is empty
CleanupFrom(c, smallest_required_index) ==
    IF smallest_required_index = 0 THEN InsertReturned(c)
    ELSE [c EXCEPT !.pc = "cleanup_revision_history",
                   !.i = smallest_required_index - 1]

\* get_index_of_ok_result: one turn of the loop from max_index down; a cell
\* that is not there is skipped; with no Ok entry the caller falls back to
\* max_index
get_index_of_ok_result(p) ==
    LET c == cl[p]
        item == entries[c.key][c.i]
    IN  /\ c.pc = "get_index_of_ok_result"
        /\ cl' = [cl EXCEPT ![p] =
                    IF item # NoneEntry /\ item.ok THEN CleanupFrom(c, c.i)
                    ELSE IF c.i = 0 THEN CleanupFrom(c, c.idx)
                    ELSE [c EXCEPT !.i = c.i - 1]]
        /\ UNCHANGED <<libVars, mgrVars, rev_index, entries, writes, subscriber>>

\* a cleanup that removes one revision and returns
cleanup_one_revision(p) ==
    LET c == cl[p]
        item == entries[c.key][c.i]
    IN  /\ c.pc = "cleanup_revision_history"
        /\ entries' = [entries EXCEPT ![c.key][c.i] = NoneEntry]
        /\ cl' = [cl EXCEPT ![p] = InsertReturned(c)]
        /\ subscriber' \in Removed(subscriber, RevCell(c.key, c.i), item)
        /\ UNCHANGED <<libVars, mgrVars, rev_index, writes>>

\* cleanup_revision_history: one turn of the removal loop, which stops at the
\* first cell that is not there
cleanup_revision_history(p) ==
    LET c == cl[p]
        item == entries[c.key][c.i]
    IN  /\ c.pc = "cleanup_revision_history"
        /\ entries' = [entries EXCEPT ![c.key][c.i] = NoneEntry]
        /\ cl' = [cl EXCEPT ![p] =
                    IF item = NoneEntry \/ c.i = 0 THEN InsertReturned(c)
                    ELSE [c EXCEPT !.i = c.i - 1]]
        /\ subscriber' \in Removed(subscriber, RevCell(c.key, c.i), item)
        /\ UNCHANGED <<libVars, mgrVars, rev_index, writes>>

\* remove_all: read rev_index_<K>; Ok(0) if it is not there
remove_all_rev(p) ==
    LET c == cl[p]
        r == rev_index[c.key]
    IN  /\ c.pc = "remove_all_rev"
        /\ cl' = [cl EXCEPT ![p] =
                    IF r = NoRev
                    THEN [c EXCEPT !.pc = "idle", !.ret = RetCount(0)]
                    ELSE [c EXCEPT !.pc = "remove_all_entry", !.idx = r,
                                   !.i = 0]]
        /\ UNCHANGED <<libVars, mgrVars, rev_index, entries, writes, subscriber>>

\* remove_all: one turn of the loop over 0..=max_index; cnt counts the cells
\* that were there
remove_all_entry(p) ==
    LET c == cl[p]
        item == entries[c.key][c.i]
    IN  /\ c.pc = "remove_all_entry"
        /\ entries' = [entries EXCEPT ![c.key][c.i] = NoneEntry]
        /\ cl' = [cl EXCEPT ![p] =
                    [c EXCEPT !.cnt = IF item # NoneEntry THEN c.cnt + 1
                                      ELSE c.cnt,
                              !.i = IF c.i = c.idx THEN c.i ELSE c.i + 1,
                              !.pc = IF c.i = c.idx THEN "remove_all_index"
                                     ELSE "remove_all_entry"]]
        /\ subscriber' \in Removed(subscriber, RevCell(c.key, c.i), item)
        /\ UNCHANGED <<libVars, mgrVars, rev_index, writes>>

\* the value of max_index + 1: at the largest counter value the addition
\* overflows, which panics in a build with overflow checks and wraps to 0
\* in a build without
RemoveAllResults(max_index) ==
    IF max_index = MaxRev THEN {RetCount(0), RetPanic}
    ELSE {RetCount(max_index + 1)}

\* a remove_all that leaves rev_index_<K> in the tree
remove_all_index_kept(p) ==
    LET c == cl[p]
    IN  /\ c.pc = "remove_all_index"
        /\ writes' = [writes EXCEPT ![c.key] = [n |-> 0, seq |-> << >>]]
        /\ \E r \in RemoveAllResults(c.idx) :
              cl' = [cl EXCEPT ![p] = [c EXCEPT !.pc = "idle", !.ret = r]]
        /\ UNCHANGED <<libVars, mgrVars, rev_index, entries, subscriber>>

\* remove_all: remove rev_index_<K> and return max_index + 1
remove_all_index(p) ==
    LET c == cl[p]
    IN  /\ c.pc = "remove_all_index"
        /\ rev_index' = [rev_index EXCEPT ![c.key] = NoRev]
        /\ writes' = [writes EXCEPT ![c.key] = [n |-> 0, seq |-> << >>]]
        /\ \E r \in RemoveAllResults(c.idx) :
              cl' = [cl EXCEPT ![p] = [c EXCEPT !.pc = "idle", !.ret = r]]
        /\ subscriber' = Deliver(subscriber, RemoveEvent(RevIndexCell(c.key)))
        /\ UNCHANGED <<libVars, mgrVars, entries>>

\* the calls of one client, one at a time
StoreClient(p) ==
    \/ get(p)
    \/ get_GetOk(p)
    \/ contains_key(p)
    \/ insert(p)
    \/ insert_if_not_exists(p)
    \/ remove_all(p)
    \/ get_rev(p)
    \/ get_entry(p)
    \/ get_ok(p)
    \/ contains_key_rev(p)
    \/ insert_rev(p)
    \/ insert_wipe(p)
    \/ insert_entry(p)
    \/ insert_index(p)
    \/ get_index_of_ok_result(p)
    \/ cleanup_revision_history(p)
    \/ remove_all_rev(p)
    \/ remove_all_entry(p)
    \/ remove_all_index(p)

NextStore == StoreClient(1)

\* the store before its first call, with no agent running beside it
InitStore == StoreInit /\ ManagerInit /\ declared = {} /\ HostAbsent

SpecStore == InitStore /\ [][NextStore]_vars

\* rev_index_<K> is written directly through the sled adapter, as a test of
\* the overflow does: the counter of a key that has revisions is set to the
\* largest value
set_rev_index_max ==
    \E k \in Keys :
        /\ cl[1].pc = "idle"
        /\ rev_index[k] # NoRev
        /\ rev_index[k] < MaxRev
        /\ rev_index' = [rev_index EXCEPT ![k] = MaxRev]
        /\ subscriber' =
              Deliver(subscriber,
                      InsertEvent(RevIndexCell(k), OkData(ToString(MaxRev))))
        /\ UNCHANGED <<libVars, mgrVars, entries, writes, cl>>

\* inserts into a store whose counter can be set from outside
NextStoreSet ==
    \/ insert(1)
    \/ insert_rev(1)
    \/ insert_wipe(1)
    \/ insert_entry(1)
    \/ insert_index(1)
    \/ get_index_of_ok_result(1)
    \/ cleanup_revision_history(1)
    \/ set_rev_index_max

SpecStoreSet == InitStore /\ [][NextStoreSet]_vars

\* ------------------------------------------------------- claims, store
\* client 1 has returned from a call of op
Returned(op) == cl[1].pc = "idle" /\ cl[1].op = op

\* client 1 has returned from an insert that took place, directly or inside
\* insert_if_not_exists
Inserted ==
    \/ Returned("insert")
    \/ Returned("insert_if_not_exists") /\ cl[1].ret = RetFlag(TRUE)

Last(q) == q[Len(q)]

\* C11: when a key has had at least one revision written by calls made one
\* at a time, get(K, Get) returns the entry of the last insert that took
\* place.
C11_GetReturnsLastWritten ==
    (Returned("get_Get") /\ writes[cl[1].key].n > 0)
        => cl[1].ret = RetEntry(Last(writes[cl[1].key].seq))

\* a Get that returns the last of several different writes
C11_Witness ==
    /\ Returned("get_Get")
    /\ writes[cl[1].key].n > MaxLog
    /\ Last(writes[cl[1].key].seq) # writes[cl[1].key].seq[MaxLog - 1]
    /\ cl[1].ret = RetEntry(Last(writes[cl[1].key].seq))

\* C12: get(K, GetOk) returns the Ok entry with the highest revision among
\* the Ok entries stored for K, and fails exactly when no stored revision
\* of K is Ok.
C12_GetOkReturnsLatestOk ==
    Returned("get_GetOk") =>
        /\ (cl[1].ret = RetFail) <=> (OkRevs(cl[1].key) = {})
        /\ OkRevs(cl[1].key) # {} => cl[1].ret = RetEntry(LatestOk(cl[1].key))

\* a GetOk that falls back past an error entry to an older Ok entry
C12_Witness ==
    /\ Returned("get_GetOk")
    /\ cl[1].ret.status = "ok"
    /\ ~entries[cl[1].key][rev_index[cl[1].key]].ok
    /\ cl[1].ret.entry = LatestOk(cl[1].key)

MinOf(S) == CHOOSE x \in S : \A y \in S : x <= y

\* C13: after an insert for K the revisions present are exactly s..r, with r
\* the current revision index and s the smallest index whose entry is Ok,
\* or exactly {r} when no entry is Ok.
C13_PresentAfterInsert ==
    Inserted =>
        LET k == cl[1].key
            r == rev_index[k]
        IN  Present(k) = IF OkRevs(k) = {} THEN {r} ELSE MinOf(OkRevs(k))..r

\* an insert after which an Ok entry and the errors above it are kept and
\* the revisions below it are gone
C13_Witness ==
    /\ Inserted
    /\ OkRevs(cl[1].key) # {}
    /\ MinOf(OkRevs(cl[1].key)) > 0
    /\ MinOf(OkRevs(cl[1].key)) < rev_index[cl[1].key]
    /\ Present(cl[1].key) = MinOf(OkRevs(cl[1].key))..rev_index[cl[1].key]

\* the key has had exactly the writes Ok(a), Err(x), Ok(b) since it was fresh
Scenario1(k) ==
    writes[k] = [n |-> 3,
                 seq |-> <<OkData("a"), ErrData("x"), OkData("b")>>]

\* C14 as stated: after Ok(a), Err(x), Ok(b) on a fresh key, Get returns an
\* error entry, GetOk returns Ok(b), and the revisions present are 2 and 3.
C14_ScenarioAsStated ==
    \A k \in Keys :
        (Scenario1(k) /\ cl[1].pc = "idle" /\ cl[1].key = k) =>
            /\ Present(k) = {2, 3}
            /\ cl[1].op = "get_Get" => ~cl[1].ret.entry.ok
            /\ cl[1].op = "get_GetOk" => cl[1].ret = RetEntry(OkData("b"))

\* C14 amended: after Ok(a), Err(x), Ok(b) on a fresh key, Get and GetOk both
\* return Ok(b), and the only revision present is 2.
C14_Scenario ==
    \A k \in Keys :
        (Scenario1(k) /\ cl[1].pc = "idle" /\ cl[1].key = k) =>
            /\ Present(k) = {2}
            /\ rev_index[k] = 2
            /\ cl[1].op = "get_Get" => cl[1].ret = RetEntry(OkData("b"))
            /\ cl[1].op = "get_GetOk" => cl[1].ret = RetEntry(OkData("b"))

\* the three inserts made by insert calls, then a Get
C14_Witness ==
    /\ Scenario1(<<"k">>)
    /\ Returned("get_Get")
    /\ cl[1].prev.op = "insert"
    /\ cl[1].ret = RetEntry(OkData("b"))

\* client 1 has returned from the second of two insert_if_not_exists calls
\* in a row with the same key and data
Twice ==
    /\ Returned("insert_if_not_exists")
    /\ cl[1].prev.op = "insert_if_not_exists"
    /\ cl[1].prev.key = cl[1].key
    /\ cl[1].prev.data = cl[1].data

\* C15 as stated: of two insert_if_not_exists calls in a row with the same
\* data, Ok or error, the first returns true and the second returns false
\* without writing.
C15_TwiceAsStated ==
    Twice =>
        /\ cl[1].prev.ret = RetFlag(TRUE)
        /\ cl[1].ret = RetFlag(FALSE)
        /\ ~cl[1].wrote

\* C15 amended: with an Ok value the second call returns false without
\* writing and the first returns true exactly when the value differs from
\* the latest Ok data the key had before it; with an error value both calls
\* return true and the second writes too.
C15_Twice ==
    Twice =>
        IF cl[1].data.ok
        THEN /\ cl[1].ret = RetFlag(FALSE)
             /\ ~cl[1].wrote
             /\ cl[1].prev.ret = RetFlag(cl[1].prev.prevOk # cl[1].data)
        ELSE /\ cl[1].prev.ret = RetFlag(TRUE)
             /\ cl[1].ret = RetFlag(TRUE)
             /\ cl[1].wrote

\* the second call returns false after the first has written
C15_Witness ==
    /\ Twice
    /\ cl[1].data.ok
    /\ cl[1].prev.ret = RetFlag(TRUE)
    /\ cl[1].prev.prevOk # NoneEntry
    /\ cl[1].ret = RetFlag(FALSE)

\* client 1 has returned from get(K, GetOk) called right after
\* insert_if_not_exists(K, d)
GetOkAfterIine ==
    /\ Returned("get_GetOk")
    /\ cl[1].prev.op = "insert_if_not_exists"
    /\ cl[1].prev.key = cl[1].key

\* C16 as stated: after insert_if_not_exists(K, d), get(K, GetOk).data equals
\* d if and only if d differs from the latest Ok data K had before the call.
C16_IffAsStated ==
    GetOkAfterIine =>
        (cl[1].ret = RetEntry(cl[1].prev.data))
            <=> (cl[1].prev.data # cl[1].prev.prevOk)

\* C16 amended: after insert_if_not_exists(K, d) with an Ok value d,
\* get(K, GetOk).data equals d whether or not the call wrote, and the call
\* wrote exactly when d differs from the latest Ok data K had before it;
\* with an error value d, get(K, GetOk).data never equals d.
C16_GetOkAfterIine ==
    GetOkAfterIine =>
        IF cl[1].prev.data.ok
        THEN /\ cl[1].ret = RetEntry(cl[1].prev.data)
             /\ cl[1].prev.ret = RetFlag(cl[1].prev.data # cl[1].prev.prevOk)
        ELSE cl[1].ret # RetEntry(cl[1].prev.data)

\* GetOk returns d after a call that found d already there and wrote nothing
C16_Witness ==
    /\ GetOkAfterIine
    /\ cl[1].prev.data.ok
    /\ cl[1].prev.ret = RetFlag(FALSE)
    /\ cl[1].ret = RetEntry(cl[1].prev.data)

\* client 1 has returned from a call of op made right after remove_all on
\* the same key
AfterRemoveAll(op) ==
    /\ Returned(op)
    /\ cl[1].prev.op = "remove_all"
    /\ cl[1].prev.key = cl[1].key

\* C17: after remove_all(K) no cell of K remains, contains_key(K) is false,
\* get(K, Get) returns KeyDoesNotExist, get(K, GetOk) fails, and a following
\* insert starts again at revision 0.
C17_RemoveAllLeavesNothing ==
    /\ Returned("remove_all") =>
          /\ Present(cl[1].key) = {}
          /\ rev_index[cl[1].key] = NoRev
    /\ AfterRemoveAll("contains_key") => cl[1].ret = RetFlag(FALSE)
    /\ AfterRemoveAll("get_Get") => cl[1].ret = RetEntry(KeyDoesNotExist)
    /\ AfterRemoveAll("get_GetOk") => cl[1].ret = RetFail
    /\ AfterRemoveAll("insert") =>
          /\ rev_index[cl[1].key] = 0
          /\ Present(cl[1].key) = {0}

\* an insert at revision 0 after a remove_all that removed revisions of a
\* key whose counter was above 0
C17_Witness ==
    /\ AfterRemoveAll("insert")
    /\ cl[1].prev.ret.n > 1
    /\ rev_index[cl[1].key] = 0

\* C18: an insert that finds the counter at its largest value removes every
\* prior revision of the key and stores the new entry at index 0 with
\* rev_index 0, also when the counter was set from outside.
C18_OverflowWipes ==
    (Returned("insert") /\ cl[1].ovf) =>
        /\ rev_index[cl[1].key] = 0
        /\ entries[cl[1].key][0] = cl[1].data
        /\ Present(cl[1].key) = {0}

\* C19: remove_all returns the number of revision cells it removed, which is
\* the revision index plus one, and 0 for a key that is not there.
C19_RemoveAllCount ==
    Returned("remove_all") =>
        /\ cl[1].ret = RetCount(cl[1].cnt)
        /\ cl[1].cnt > 0 => cl[1].ret.n = cl[1].idx + 1

\* C20: in every state, also between the adapter calls of insert, cleanup
\* and remove_all, rev_index_<K> = r implies that key_<K>_rev_<r> is there.
C20_IndexHasEntry ==
    \A k \in Keys :
        rev_index[k] # NoRev => entries[k][rev_index[k]] # NoneEntry

\* client 1 has returned from insert, insert_if_not_exists or remove_all
ReturnedFromWrite ==
    /\ cl[1].pc = "idle"
    /\ cl[1].op \in {"insert", "insert_if_not_exists", "remove_all"}

\* across one call the index of the key did not go down, unless the call
\* wrapped the counter; an index that is not there counts as no index
StepMonotone ==
    (ReturnedFromWrite /\ cl[1].rev0 # NoRev /\ rev_index[cl[1].key] # NoRev
        /\ ~cl[1].ovf)
        => rev_index[cl[1].key] >= cl[1].rev0

\* C21 as stated: across any sequence of insert, insert_if_not_exists and
\* remove_all the index held in rev_index_<K> never goes down, except when
\* an insert wraps the counter.
C21_MonotoneAsStated ==
    /\ StepMonotone
    /\ (ReturnedFromWrite /\ cl[1].prev.op = "remove_all"
            /\ cl[1].prev.key = cl[1].key /\ cl[1].prev.rev0 # NoRev
            /\ rev_index[cl[1].key] # NoRev /\ ~cl[1].ovf)
          => rev_index[cl[1].key] >= cl[1].prev.rev0

\* C21 amended: across insert and insert_if_not_exists the index never goes
\* down except when an insert wraps the counter; remove_all removes the
\* index, and the first insert after it starts again at 0.
C21_Monotone ==
    /\ StepMonotone
    /\ Returned("remove_all") => rev_index[cl[1].key] = NoRev
    /\ (Inserted /\ cl[1].prev.op = "remove_all"
            /\ cl[1].prev.key = cl[1].key)
          => rev_index[cl[1].key] = 0

\* an insert that raised the index of a key that had one
C21_Witness ==
    /\ Inserted
    /\ cl[1].rev0 # NoRev
    /\ ~cl[1].ovf
    /\ rev_index[cl[1].key] = cl[1].rev0 + 1

\* ------------------------------------------------- inserts from two threads
\* the inserts on k that have been called and have not yet written their entry
InFlight(k) ==
    Cardinality({p \in Clients :
        cl[p].key = k /\ cl[p].pc \in {"insert_rev", "insert_wipe",
                                       "insert_entry"}})

\* a run has room for one more insert on some key
Room == \E k \in Keys : writes[k].n + InFlight(k) < MaxLog

\* two clients insert, their adapter calls interleaved in any order; a run
\* makes MaxLog inserts per key, too few to wrap the counter
NextStoreConc ==
    \E p \in Clients :
        \/ Room /\ insert(p)
        \/ insert_rev(p)
        \/ insert_entry(p)
        \/ insert_index(p)
        \/ get_index_of_ok_result(p)
        \/ cleanup_revision_history(p)

SpecStoreConc == InitStore /\ [][NextStoreConc]_vars

\* both clients have returned from an insert on key k for which they
\* computed the same next_index without an overflow
SameIndex(k) ==
    /\ \A p \in Clients :
          /\ cl[p].pc = "idle"
          /\ cl[p].op = "insert"
          /\ cl[p].key = k
          /\ ~cl[p].ovf
    /\ cl[1].idx = cl[2].idx
    /\ cl[1].rev0 = cl[2].rev0

\* C22: two inserts on the same key that read the same revision index write
\* the same key_<K>_rev_<i> cell and the same rev_index_<K> value: the cell
\* holds the entry of one of them and the index has advanced once.
C22_SameCell ==
    \A k \in Keys :
        SameIndex(k) =>
            /\ rev_index[k] = cl[1].idx
            /\ entries[k][cl[1].idx] \in {cl[1].data, cl[2].data}

\* two inserts of different data on a fresh key have both returned, the
\* index is 0 and one of the two entries is in no cell
C22_Witness ==
    \E k \in Keys :
        /\ SameIndex(k)
        /\ writes[k].n = 2
        /\ rev_index[k] = 0
        /\ cl[1].data # cl[2].data
        /\ \E p \in Clients : \A i \in Revs : entries[k][i] # cl[p].data

\* ------------------------------------------------------ a watched prefix
\* the logical keys of the watched store: "a", "ab" and "c"
WatchKeys == {<<"a">>, <<"a", "b">>, <<"c">>}

\* the prefixes a caller passes to watch_prefix: "a" and "a_rev_"
WatchPrefixes == {<<"a">>, <<"a", "_rev_">>}

\* FallbackEntryStore::watch_prefix puts KEY_PREFIX in front of the prefix,
\* SledStore::watch_prefix the global prefix; sled gets the result
watch_prefix(prefix) ==
    [asked |-> prefix,
     prefix |-> GLOBAL_PREFIX_TASK_STORE \o (KEY_PREFIX \o prefix),
     events |-> << >>]

\* a fresh store on which watch_prefix has just been called
InitWatch ==
    /\ rev_index = [k \in WatchKeys |-> NoRev]
    /\ entries = [k \in WatchKeys |-> [i \in Revs |-> NoneEntry]]
    /\ writes = [k \in WatchKeys |-> [n |-> 0, seq |-> << >>]]
    /\ cl = [p \in Clients |-> IdleClient]
    /\ \E prefix \in WatchPrefixes : subscriber = <<watch_prefix(prefix)>>
    /\ ManagerInit
    /\ declared = {}
    /\ HostAbsent

\* the inserts of a run, made and in progress
Issued ==
    {<<k, j>> \in WatchKeys \X (1..MaxLog) : j <= writes[k].n + InFlight(k)}

\* one client inserts under the watched store's keys; a run makes MaxLog
\* inserts, too few to wrap a counter
NextWatch ==
    \/ Cardinality(Issued) < MaxLog /\ insert(1)
    \/ insert_rev(1)
    \/ insert_entry(1)
    \/ insert_index(1)
    \/ get_index_of_ok_result(1)
    \/ cleanup_revision_history(1)

SpecWatch == InitWatch /\ [][NextWatch]_vars

\* the Insert events of a queue, oldest first
InsertEvents(q) == SelectSeq(q, LAMBDA e : e.kind = "Insert")

\* C23: a subscriber created with watch_prefix(p) before any write gets,
\* at the end of its queue, one Insert event for every revision entry that
\* is written under a logical key starting with p, carrying the entry, and
\* gets no Insert event from any other step: none for a rev_index_ cell,
\* none for a key that does not start with p.
C23_InsertEventPerEntry ==
    [][LET before == InsertEvents(subscriber[1].events)
           after == InsertEvents(subscriber'[1].events)
           p == subscriber[1].asked
       IN  IF \E k \in WatchKeys :
                 writes'[k] # writes[k] /\ starts_with(k, p)
           THEN /\ Len(after) = Len(before) + 1
                /\ SubSeq(after, 1, Len(before)) = before
                /\ \E k \in WatchKeys, i \in Revs :
                      /\ writes'[k] # writes[k]
                      /\ Last(after).key = RevCell(k, i)
                      /\ Last(after).value = Last(writes'[k].seq)
                      /\ entries'[k][i] = Last(after).value
           ELSE after = before]_vars

\* ------------------------------------- the proposal agents and their keys
GOVERNANCE_PREFIX == "governance_"

PROPOSAL_PREFIX == "proposal_"

\* blockchain.name of the chains the fetch agent is configured with
Blockchains == {"osmosis", "juno"}

ProposalIds == {1}

\* a fetched proposal, as the data of its Entry
ProposalExt(blockchain, proposal_id) ==
    OkData(<<"ProposalExt", blockchain, ToString(proposal_id)>>)

\* GovernanceProposalView::new keeps proposal.blockchain.name and
\* proposal.get_proposal_id().to_string()
proposal_to_view(proposal) ==
    OkData(<<"GovernanceProposalView", proposal.v[2], proposal.v[3]>>)

\* format!("{}{}{}_{}", GOVERNANCE_PREFIX, PROPOSAL_PREFIX,
\*         proposal_view.proposal_blockchain_name, proposal_view.proposal_id)
get_proposal_view_entry_key(proposal_view) ==
    <<GOVERNANCE_PREFIX, PROPOSAL_PREFIX, proposal_view.v[2], "_",
      proposal_view.v[3]>>

\* format!("{}{}{}_{}", GOVERNANCE_PREFIX, PROPOSAL_PREFIX, blockchain.name,
\*         proposal_id)
get_proposal_entry_key(blockchain, proposal_id) ==
    <<GOVERNANCE_PREFIX, PROPOSAL_PREFIX, blockchain, "_",
      ToString(proposal_id)>>

\* the store client of the proposal-fetch agent and of the proposal-view agent
FetchAgent == 1

ViewAgent == 2

\* the logical keys the two agents can build
AgentKeys ==
    UNION {{get_proposal_entry_key(b, i),
            get_proposal_view_entry_key(proposal_to_view(ProposalExt(b, i)))} :
           b \in Blockchains, i \in ProposalIds}

\* an empty AGENT_STORE; the view agent has subscribed to GOVERNANCE_PREFIX
InitAgents ==
    /\ rev_index = [k \in AgentKeys |-> NoRev]
    /\ entries = [k \in AgentKeys |-> [i \in Revs |-> NoneEntry]]
    /\ writes = [k \in AgentKeys |-> [n |-> 0, seq |-> << >>]]
    /\ cl = [p \in Clients |-> IdleClient]
    /\ subscriber = <<watch_prefix(<<GOVERNANCE_PREFIX>>)>>
    /\ ManagerInit
    /\ declared = {}
    /\ HostAbsent

\* the entries written so far, over all keys
Written == {<<k, j>> \in (DOMAIN writes) \X (1..MaxLog) : j <= writes[k].n}

\* try_fetch_proposals stores one proposal of the page it has fetched; a run
\* goes on until MaxLog entries are written
try_fetch_proposals ==
    \E b \in Blockchains, i \in ProposalIds :
        /\ Cardinality(Written) < MaxLog
        /\ Call(FetchAgent, "insert_if_not_exists",
                get_proposal_entry_key(b, i), ProposalExt(b, i), "get_rev")

\* key.contains(PROPOSAL_PREFIX) on the key of an event
contains(key, piece) == \E n \in 1..Len(key) : key[n] = piece

\* the value of an event decodes to an Entry<ProposalExt> with Ok data; the
\* bytes of an Entry of another type are taken not to decode
IsProposalEntry(value) == value.ok /\ value.v[1] = "ProposalExt"

\* try_update_proposal_views takes the next event of its subscriber; for an
\* Insert under a key that contains PROPOSAL_PREFIX with a proposal in it, it
\* builds the view and stores it with insert_if_not_exists
try_update_proposal_views ==
    LET event == Head(subscriber[1].events)
        proposal_view == proposal_to_view(event.value)
    IN  /\ cl[ViewAgent].pc = "idle"
        /\ subscriber[1].events # << >>
        /\ subscriber' = [subscriber EXCEPT ![1].events = Tail(@)]
        /\ cl' = IF /\ event.kind = "Insert"
                    /\ contains(event.key, PROPOSAL_PREFIX)
                    /\ IsProposalEntry(event.value)
                 THEN [cl EXCEPT ![ViewAgent] =
                         Entering(ViewAgent, "insert_if_not_exists",
                                  get_proposal_view_entry_key(proposal_view),
                                  proposal_view, "get_rev")]
                 ELSE cl
        /\ UNCHANGED <<libVars, mgrVars, rev_index, entries, writes>>

\* the two agents and the store calls they are in
NextAgents ==
    \/ try_fetch_proposals
    \/ try_update_proposal_views
    \/ \E p \in {FetchAgent, ViewAgent} :
          \/ get_rev(p)
          \/ get_ok(p)
          \/ insert_rev(p)
          \/ insert_entry(p)
          \/ insert_index(p)
          \/ get_index_of_ok_result(p)
          \/ cleanup_revision_history(p)

SpecAgents == InitAgents /\ [][NextAgents]_vars

\* the agent an entry was written by, told by the type of its data
WriterOf(data) == data.v[1]

\* C24: every logical key is written by one agent only: the entries written
\* under a key all come from the same agent, so the proposal-fetch agent and
\* the proposal-view agent never insert under the same key.
C24_OneWriterPerKey ==
    \A k \in DOMAIN writes :
        \A m, n \in 1..Len(writes[k].seq) :
            WriterOf(writes[k].seq[m]) = WriterOf(writes[k].seq[n])

\* ----------------------------------------------- the library's entry points
\* the value of an Option that is None
None == "None"

\* the sled handles a caller can pass to init
Handles == {"persistent_sled", "temporary_sled"}

\* the statics of an image of the library at path that has just been loaded,
\* with one handle open on it
Statics(path) ==
    [path |-> path, refs |-> 1, INIT |-> FALSE,
     PERSISTENT_SLED |-> None, TEMPORARY_SLED |-> None,
     RT |-> "Runtime", CANCELLATION_FLAG |-> FALSE,
     managers |-> 0, loops |-> 0]

\* an init that stores the handles on every call
lib_init_overwrite(s, persistent_sled, temporary_sled) ==
    [s EXCEPT !.INIT = TRUE, !.PERSISTENT_SLED = persistent_sled,
              !.TEMPORARY_SLED = temporary_sled]

\* init: INIT.call_once runs the closure on the first call only; the closure
\* stores the handles if both statics are None
lib_init(s, persistent_sled, temporary_sled) ==
    IF s.INIT THEN s
    ELSE IF s.PERSISTENT_SLED = None /\ s.TEMPORARY_SLED = None
         THEN [s EXCEPT !.INIT = TRUE, !.PERSISTENT_SLED = persistent_sled,
                        !.TEMPORARY_SLED = temporary_sled]
         ELSE [s EXCEPT !.INIT = TRUE]

\* a run that does not look for the runtime in RT
AgentManager_run_unchecked(s) ==
    [s EXCEPT !.managers = @ + 1, !.CANCELLATION_FLAG = FALSE, !.loops = @ + 2]

\* AgentManager::new(agent).run(): the manager is constructed; with a runtime
\* in RT the flag is cleared and the two loops are spawned, with None in RT
\* run returns None
AgentManager_run(s) ==
    IF s.RT # None
    THEN [s EXCEPT !.managers = @ + 1, !.CANCELLATION_FLAG = FALSE,
                   !.loops = @ + 2]
    ELSE [s EXCEPT !.managers = @ + 1]

\* a start that does not look at INIT
lib_start_unguarded(s) == AgentManager_run(s)

\* start, in a build with one agent feature enabled: the manager is run if
\* INIT.is_completed(), else an error is logged
lib_start(s) == IF s.INIT THEN AgentManager_run(s) ELSE s

\* stop: CANCELLATION_FLAG.store(true)
lib_stop(s) == [s EXCEPT !.CANCELLATION_FLAG = TRUE]

\* a shutdown that leaves the runtime in RT
lib_shutdown_keeps_runtime(s) == lib_stop(s)

\* shutdown: CANCELLATION_FLAG.store(true), RT is replaced by None and the
\* runtime that was in it is shut down
lib_shutdown(s) == [s EXCEPT !.CANCELLATION_FLAG = TRUE, !.RT = None]

\* a call of an entry point, as its caller remembers it
NoCall == [op |-> "none", persistent |-> None, temporary |-> None]

CallOf(op) == [op |-> op, persistent |-> None, temporary |-> None]

\* the caller after a call: its last call, its first init, its inits so far
Called(h, call) ==
    [last |-> call,
     first |-> IF call.op = "init" /\ h.inits = 0 THEN call ELSE h.first,
     inits |-> IF call.op = "init" THEN Min(h.inits + 1, 2) ELSE h.inits]

\* one image of the library, loaded by a caller that has not called it yet
InitLib ==
    /\ lib = <<Statics("plugin.so")>>
    /\ host = [last |-> NoCall, first |-> NoCall, inits |-> 0]
    /\ StoreUnopened
    /\ ManagerInit
    /\ declared = {}

init_called ==
    \E persistent_sled, temporary_sled \in Handles :
        /\ lib' = [lib EXCEPT ![1] =
                      lib_init(@, persistent_sled, temporary_sled)]
        /\ host' = Called(host, [op |-> "init",
                                 persistent |-> persistent_sled,
                                 temporary |-> temporary_sled])
        /\ UNCHANGED <<mgrVars, storeVars>>

\* a caller starts the plugin at most MaxStarts times after init
start_called ==
    /\ lib[1].managers < MaxStarts
    /\ lib' = [lib EXCEPT ![1] = lib_start(@)]
    /\ host' = Called(host, CallOf("start"))
    /\ UNCHANGED <<mgrVars, storeVars>>

stop_called ==
    /\ lib' = [lib EXCEPT ![1] = lib_stop(@)]
    /\ host' = Called(host, CallOf("stop"))
    /\ UNCHANGED <<mgrVars, storeVars>>

shutdown_called ==
    /\ lib' = [lib EXCEPT ![1] = lib_shutdown(@)]
    /\ host' = Called(host, CallOf("shutdown"))
    /\ UNCHANGED <<mgrVars, storeVars>>

\* the entry points, called in any order
NextLib == init_called \/ start_called \/ stop_called \/ shutdown_called

SpecLib == InitLib /\ [][NextLib]_vars

C26_StartBeforeInit ==
    [][(host'.last.op = "start" /\ ~lib[1].INIT) => lib'[1] = lib[1]]_vars

\* start has been called before init, with the flag set by a stop before it
C26_Witness ==
    /\ host.last.op = "start"
    /\ host.inits = 0
    /\ ~lib[1].INIT
    /\ lib[1].CANCELLATION_FLAG
    /\ lib[1].managers = 0
    /\ lib[1].loops = 0

\* what stop and shutdown have to leave alone
Kept(s) == <<s.INIT, s.PERSISTENT_SLED, s.TEMPORARY_SLED, s.managers, s.loops>>

\* C27: stop sets the cancellation flag and leaves the runtime where it is;
\* shutdown sets the flag and replaces the runtime by None; neither changes
\* the database handles or the init latch.
C27_StopAndShutdown ==
    [][/\ host'.last.op = "stop" =>
            /\ lib'[1].CANCELLATION_FLAG
            /\ lib'[1].RT = lib[1].RT
            /\ Kept(lib'[1]) = Kept(lib[1])
       /\ host'.last.op = "shutdown" =>
            /\ lib'[1].CANCELLATION_FLAG
            /\ lib'[1].RT = None
            /\ Kept(lib'[1]) = Kept(lib[1])]_vars

\* shutdown has been called on an initialised plugin whose loops were running
C27_Witness ==
    /\ host.last.op = "shutdown"
    /\ lib[1].INIT
    /\ lib[1].PERSISTENT_SLED # None
    /\ lib[1].loops > 0
    /\ lib[1].RT = None
    /\ lib[1].CANCELLATION_FLAG

\* ------------------------------------------------------- the host (main.rs)
\* the files that can appear in ./bin/lib/, as <<stem, extension>>
Paths == {<<"a", "so">>, <<"b", "so">>, <<"notes", "txt">>}

extension(path) == path[2]

\* the entries of read_dir whose extension is "so"
library_files == {path \in Paths : extension(path) = "so"}

\* no plugin under a key of the map, no image behind a handle
NoPlugin == 0

\* the images of the library at path that some handle keeps open
OpenImages(path) ==
    {n \in 1..Len(lib) : lib[n].path = path /\ lib[n].refs > 0}

\* Library::new(library_path): an Err if the file cannot be loaded; else a
\* handle on the image that is already open for this path, or on a new one
LibraryNew(path) == {NoPlugin} \cup OpenImages(path) \cup {Len(lib) + 1}

\* the images after Library::new has returned a handle on image n
Opened(path, n) ==
    IF n = Len(lib) + 1 THEN Append(lib, Statics(path))
    ELSE [lib EXCEPT ![n].refs = @ + 1]

\* the images after a DefaultPlugin has been dropped: its Library is closed
Dropped(images, n) ==
    IF n = NoPlugin THEN images ELSE [images EXCEPT ![n].refs = @ - 1]

\* main has read the directory; nothing is loaded; the watcher is not set up
InitHost ==
    /\ lib = << >>
    /\ \E files \in SUBSET library_files :
          host = [pc |-> "main", active_plugins |-> [path \in Paths |-> NoPlugin],
                  todo |-> files, path |-> << >>, new_plugin |-> NoPlugin,
                  kind |-> "none", reload |-> FALSE, poisoned |-> FALSE,
                  main |-> "starting", watcher |-> "none",
                  events |-> 0, failures |-> 0]
    /\ StoreUnopened
    /\ ManagerInit
    /\ declared = {}

\* for entry in library_files: lock the map; a plugin that is already in
\* it is skipped
main_entry ==
    /\ host.pc = "main"
    /\ \E path \in host.todo :
          host' = IF host.active_plugins[path] # NoPlugin
                  THEN [host EXCEPT !.todo = @ \ {path}]
                  ELSE [host EXCEPT !.todo = @ \ {path}, !.path = path,
                                    !.pc = "main_load"]
    /\ UNCHANGED <<lib, mgrVars, storeVars>>

\* DefaultPlugin::new(path_str).expect("Failed to load library") in main:
\* on an Err main panics and the process ends
main_load ==
    /\ host.pc = "main_load"
    /\ \E n \in LibraryNew(host.path) :
          IF n = NoPlugin
          THEN /\ host' = [host EXCEPT !.pc = "ended", !.main = "panicked",
                                       !.failures = 1]
               /\ lib' = lib
          ELSE /\ host' = [host EXCEPT !.pc = "main_init", !.new_plugin = n]
               /\ lib' = Opened(host.path, n)
    /\ UNCHANGED <<mgrVars, storeVars>>

\* new_plugin.init(&PERSISTENT_SLED, &TEMPORARY_SLED)
plugin_init(pc, next) ==
    /\ host.pc = pc
    /\ lib' = [lib EXCEPT ![host.new_plugin] =
                  lib_init(@, "persistent_sled", "temporary_sled")]
    /\ host' = [host EXCEPT !.pc = next]
    /\ UNCHANGED <<mgrVars, storeVars>>

\* new_plugin.start()
plugin_start(pc, next) ==
    /\ host.pc = pc
    /\ lib' = [lib EXCEPT ![host.new_plugin] = lib_start(@)]
    /\ host' = [host EXCEPT !.pc = next]
    /\ UNCHANGED <<mgrVars, storeVars>>

\* plugins.insert(path_str, new_plugin): the plugin that was under the key
\* is dropped here; then the lock is released
plugins_insert(pc, next) ==
    /\ host.pc = pc
    /\ lib' = Dropped(lib, host.active_plugins[host.path])
    /\ host' = [host EXCEPT !.active_plugins[host.path] = host.new_plugin,
                            !.new_plugin = NoPlugin, !.reload = FALSE,
                            !.pc = next]
    /\ UNCHANGED <<mgrVars, storeVars>>

main_init == plugin_init("main_init", "main_start")

main_start == plugin_start("main_start", "main_insert")

main_insert == plugins_insert("main_insert", "main")

\* the watcher is created and main goes to sleep in its loop
main_watch ==
    /\ host.pc = "main"
    /\ host.todo = {}
    /\ host' = [host EXCEPT !.pc = "idle", !.main = "running",
                            !.watcher = "alive"]
    /\ UNCHANGED <<lib, mgrVars, storeVars>>

\* the watcher's callback gets EventKind::Create or Modify for a path: a
\* path whose extension is not "so" is ignored, else the map is locked
on_create_or_modify ==
    \E kind \in {"Create", "Modify"}, path \in Paths :
        /\ host.pc = "idle"
        /\ host.events < MaxEvents
        /\ host' = IF extension(path) = "so"
                   THEN [host EXCEPT !.events = @ + 1, !.kind = kind,
                                     !.path = path, !.pc = "changed"]
                   ELSE [host EXCEPT !.events = @ + 1, !.kind = kind,
                                     !.path = path]
        /\ UNCHANGED <<lib, mgrVars, storeVars>>

\* if let Some(plugin) = plugins.get_mut(path_str) { plugin.shutdown(); }
changed_shutdown ==
    LET plugin == host.active_plugins[host.path]
    IN  /\ host.pc = "changed"
        /\ lib' = IF plugin # NoPlugin
                  THEN [lib EXCEPT ![plugin] = lib_shutdown(@)]
                  ELSE lib
        /\ host' = [host EXCEPT !.reload = plugin # NoPlugin,
                                !.pc = "changed_load"]
        /\ UNCHANGED <<mgrVars, storeVars>>

\* DefaultPlugin::new(path_str).expect("Failed to load library") in the
\* callback: on an Err the watcher's thread panics with the map locked, so
\* the mutex is poisoned and no later event is handled; main sleeps on
changed_load ==
    /\ host.pc = "changed_load"
    /\ \E n \in LibraryNew(host.path) :
          IF n = NoPlugin
          THEN /\ host' = [host EXCEPT !.pc = "ended", !.watcher = "dead",
                                       !.poisoned = TRUE, !.failures = 1]
               /\ lib' = lib
          ELSE /\ host' = [host EXCEPT !.pc = "changed_init",
                                       !.new_plugin = n]
               /\ lib' = Opened(host.path, n)
    /\ UNCHANGED <<mgrVars, storeVars>>

changed_init == plugin_init("changed_init", "changed_start")

changed_start == plugin_start("changed_start", "changed_insert")

changed_insert == plugins_insert("changed_insert", "idle")

\* the callback gets EventKind::Remove: the map is locked and
\* plugins.remove(path_str) takes the plugin out of it
on_remove ==
    \E path \in Paths :
        /\ host.pc = "idle"
        /\ host.events < MaxEvents
        /\ host' = IF host.active_plugins[path] # NoPlugin
                   THEN [host EXCEPT !.events = @ + 1, !.kind = "Remove",
                                     !.path = path,
                                     !.new_plugin = host.active_plugins[path],
                                     !.active_plugins[path] = NoPlugin,
                                     !.pc = "removed"]
                   ELSE [host EXCEPT !.events = @ + 1, !.kind = "Remove",
                                     !.path = path]
        /\ UNCHANGED <<lib, mgrVars, storeVars>>

\* plugin.shutdown() on the removed plugin, which is then dropped
removed_shutdown ==
    /\ host.pc = "removed"
    /\ lib' = Dropped([lib EXCEPT ![host.new_plugin] = lib_shutdown(@)],
                      host.new_plugin)
    /\ host' = [host EXCEPT !.new_plugin = NoPlugin, !.pc = "idle"]
    /\ UNCHANGED <<mgrVars, storeVars>>

NextHost ==
    \/ main_entry
    \/ main_load
    \/ main_init
    \/ main_start
    \/ main_insert
    \/ main_watch
    \/ on_create_or_modify
    \/ changed_shutdown
    \/ changed_load
    \/ changed_init
    \/ changed_start
    \/ changed_insert
    \/ on_remove
    \/ removed_shutdown

SpecHost == InitHost /\ [][NextHost]_vars

\* the plugin under the path of the event that is being handled
Running == host.active_plugins[host.path]

\* C28: on a create or modify event for a path that has a plugin, the old
\* plugin is shut down and its handle dropped before the replacement is
\* loaded; the replacement is then initialised, started and stored under the
\* same key; on a remove event the plugin is shut down and taken out of the
\* map.
C28_ReloadOrder ==
    /\ (host.pc = "changed_load" /\ host.reload) =>
          /\ Running = NoPlugin
          /\ \A n \in OpenImages(host.path) : lib[n].RT = None
          /\ OpenImages(host.path) = {}
    /\ (host.pc = "idle" /\ host.kind \in {"Create", "Modify"}
            /\ extension(host.path) = "so") =>
          /\ Running # NoPlugin
          /\ lib[Running].INIT
    /\ (host.pc = "idle" /\ host.kind = "Remove") =>
          /\ Running = NoPlugin
          /\ \A n \in 1..Len(lib) :
                (lib[n].path = host.path /\ lib[n].refs = 0) =>
                    lib[n].RT = None

\* C29: when a plugin library fails to load, at startup or on an event, the
\* host does not insert a plugin for it and goes on running and handling
\* later events.
C29_LoadFailureSurvived ==
    host.failures > 0 =>
        /\ host.main # "panicked"
        /\ host.watcher # "dead"
        /\ ~host.poisoned
        /\ host.new_plugin = NoPlugin

\* ------------------------------------------------- the manager's lock cycle
\* the dispatcher holds the delay-queue mutex and waits for agent.read() or
\* for join_set.lock(), which the handler holds
DispatcherBlocked ==
    /\ dqOwner = "A"
    /\ \/ pcA = "get_tasks" /\ agentWriter = "B"
       \/ pcA = "lock_js" /\ jsOwner = "B"

\* the handler holds the join-set mutex and the agent write lock and waits
\* for delay_queue.lock(), which the dispatcher holds
HandlerBlocked ==
    /\ jsOwner = "B"
    /\ agentWriter = "B"
    /\ WaitsDqB
    /\ dqOwner = "A"

\* C30: the manager's loops never block each other for good: no run reaches
\* a state in which the dispatcher holds the delay-queue lock while it waits
\* for the agent read lock or the join-set lock and the handler holds the
\* join-set lock and the agent write lock while it waits for the delay-queue
\* lock.
C30_NoLockCycle == ~(DispatcherBlocked /\ HandlerBlocked)

\* --------------------------------------------- tasks declared after start
\* C31 (as claimed): a task that the agent declares only after the
\* dispatcher's first enumeration came back empty is eventually spawned (its
\* registry entry leaves Absent), unless the manager is cancelled.
C31_LateTasksSpawned ==
    \A t \in Tasks :
       (pcA # "init" /\ t \in declared /\ task_registry[t] = Absent)
          ~> (flag \/ task_registry[t] # Absent)

\* -------------------------------------------- completions and the queue
\* the number of entries of task t in a delay queue, running or expired
QueuedIn(dq, t) ==
    Cardinality({e \in dq.waiting : e.task = t})
       + Cardinality({i \in 1..Len(dq.due) : dq.due[i].task = t})

QueuedOf(t) == QueuedIn(delay_queue, t)

\* the completion the handler has in hand carries a TaskResult
HasResult == completed # << >> /\ Head(completed).status \in {"ok", "err"}

\* C32: the handler turns every drained completion that carries a
\* TaskResult into exactly one new delay-queue entry for its task: it first
\* resets the task's retry delay (Ok) or backs it off (Err), nothing else
\* writes the retry delays, and the entry it then inserts has the agent's
\* update interval as delay when Ok and the updated retry delay when Err; a
\* completion with a TaskResult leaves the handler's hands only in that
\* insertion and the queue gains entries in no other step.
C32_OneEntryPerResult ==
    [][LET w == Head(completed)
           d == get_retry_delay_in_secs(retry_delay_in_secs, w.task)
           e == [task |-> w.task, result |-> w.status,
                 delay |-> IF w.status = "ok" THEN update_interval_in_secs
                           ELSE d]
       IN  /\ retry_delay_in_secs' # retry_delay_in_secs =>
                /\ HasResult
                /\ pcB = "agent_write" /\ pcB' = "lock_dq"
                /\ completed' = completed
                /\ w.status = "ok" =>
                      retry_delay_in_secs' =
                         reset_retry_delay(retry_delay_in_secs, w.task)
                /\ w.status = "err" =>
                      \E j \in 0..(d \div 2) :
                         retry_delay_in_secs' =
                            set_retry_delay_in_secs(retry_delay_in_secs, w.task,
                               Min(max_interval, d * backoff_factor + j))
           /\ (HasResult /\ completed' # completed) =>
                /\ pcB = "push"
                /\ agentWriter = "B"
                /\ completed' = Tail(completed)
                /\ w.status = "ok" => d = initial_retry_delay
                /\ e \notin delay_queue.waiting
                /\ delay_queue'.waiting = delay_queue.waiting \cup {e}
                /\ delay_queue'.due = delay_queue.due
                /\ QueuedIn(delay_queue', w.task) = QueuedOf(w.task) + 1
           /\ (\E x \in delay_queue'.waiting : x \notin delay_queue.waiting) =>
                (HasResult /\ pcB = "push")]_vars

\* an Err result waits in the queue with a backed-off retry delay next to
\* an Ok result queued with the update interval
C32_Witness ==
    /\ \E x \in delay_queue.waiting : x.result = "err" /\ x.delay > initial_retry_delay
    /\ \E x \in delay_queue.waiting :
          x.result = "ok" /\ x.delay = update_interval_in_secs

\* C33: for every task, the workers of the task in the join set and the
\* entries of the task in the delay queue number at most one together, and
\* while there is such a worker or entry the task's registry entry is
\* Pending.
C33_WorkerOrEntry ==
    LET due == delay_queue.due
        InDue(t) == \E i \in 1..Len(due) : due[i].task = t
        InWaiting(t) == \E e \in delay_queue.waiting : e.task = t
    IN  /\ \A w \in join_set :
              /\ task_registry[w.task].state = "Pending"
              /\ \A v \in join_set : v.task = w.task => v = w
              /\ ~InWaiting(w.task)
              /\ ~InDue(w.task)
        /\ \A e \in delay_queue.waiting :
              /\ task_registry[e.task].state = "Pending"
              /\ \A f \in delay_queue.waiting : f.task = e.task => f = e
              /\ ~InDue(e.task)
        /\ \A i \in 1..Len(due) :
              /\ task_registry[due[i].task].state = "Pending"
              /\ \A j \in 1..Len(due) : due[j].task = due[i].task => j = i

\* one task has a worker again after an earlier result of it expired, while
\* the other task's result waits in the delay queue
C33_Witness ==
    \E t, u \in Tasks :
       /\ t # u
       /\ WorkersOf(t) # {}
       /\ get_retry_delay_in_secs(retry_delay_in_secs, t) > initial_retry_delay
       /\ QueuedOf(u) = 1
       /\ WorkersOf(u) = {}

\* ------------------------------------------------- the join set at the end
\* C36: with the cancellation flag set (nothing clears it in a manager's
\* life), once both loops have exited the join set is empty, whichever loop
\* shut it down last and whenever the dispatcher spawned its last worker.
C36_EmptyAfterExit ==
    (flag /\ pcA = "done" /\ pcB = "done") => join_set = {}

\* both loops have exited and a task that was re-spawned after a failure is
\* left Pending with no result queued or in hand: its last worker never
\* delivered a result and is gone from the join set
C36_Witness ==
    /\ flag /\ pcA = "done" /\ pcB = "done"
    /\ completed = << >>
    /\ \E t \in Tasks :
          /\ task_registry[t].state = "Pending"
          /\ QueuedOf(t) = 0
          /\ get_retry_delay_in_secs(retry_delay_in_secs, t) > initial_retry_delay

\* ------------------------------------------------- start after shutdown
\* C35: once shutdown has been called RT holds None for good and the flag
\* stays set: a start that finds None in RT spawns no loop and leaves the
\* cancellation flag as it is.
C35_StartAfterShutdown ==
    [][/\ (host'.last.op = "shutdown" \/ lib[1].RT = None) =>
             /\ lib'[1].RT = None
             /\ lib'[1].CANCELLATION_FLAG
       /\ (host'.last.op = "start" /\ lib[1].RT = None) =>
             /\ lib'[1].loops = lib[1].loops
             /\ lib'[1].CANCELLATION_FLAG = lib[1].CANCELLATION_FLAG]_vars

\* an initialised plugin was started, shut down and started again: the
\* second manager was constructed, the loops are those of the first start
C35_Witness ==
    /\ host.last.op = "start"
    /\ lib[1].INIT
    /\ lib[1].RT = None
    /\ lib[1].CANCELLATION_FLAG
    /\ lib[1].managers = 2
    /\ lib[1].loops = 2

\* ------------------------------------------ stop and start of one manager
\* The loops of the manager that the first start has run, with the entry
\* points of the library called while they run; the agent declares no task.
\* CANCELLATION_FLAG is one static of the image: flag is its value.
InitRestart ==
    /\ lib = <<lib_start(lib_init(Statics("plugin.so"),
                                  "persistent_sled", "temporary_sled"))>>
    /\ host = Called(Called([last |-> NoCall, first |-> NoCall, inits |-> 0],
                            [op |-> "init", persistent |-> "persistent_sled",
                             temporary |-> "temporary_sled"]),
                     CallOf("start"))
    /\ StoreUnopened
    /\ ManagerInit
    /\ declared = {}

\* an entry point returns with the statics s: the loops see the flag it left
Returns(s, call) ==
    /\ lib' = [lib EXCEPT ![1] = s]
    /\ flag' = s.CANCELLATION_FLAG
    /\ host' = Called(host, call)
    /\ UNCHANGED <<storeVars, agentVars, task_registry, join_set, delay_queue,
                   lockVars, pcA, localsA, pcB, completed>>

init_while_running ==
    \E persistent_sled, temporary_sled \in Handles :
        Returns(lib_init(lib[1], persistent_sled, temporary_sled),
                [op |-> "init", persistent |-> persistent_sled,
                 temporary |-> temporary_sled])

\* start is called again: another manager is constructed and run
start_while_running ==
    /\ lib[1].managers < MaxStarts
    /\ Returns(lib_start(lib[1]), CallOf("start"))

stop_while_running == Returns(lib_stop(lib[1]), CallOf("stop"))

\* the steps of the two loops of a manager whose agent has no task
DispatcherIdle ==
    \/ A_Init \/ A_Loop \/ A_LockDq \/ A_WaitTimeout \/ A_Sleep
    \/ A_ExitLockJs \/ A_Shutdown

HandlerIdle ==
    \/ B_Loop \/ B_LockJs \/ B_Poll \/ B_Sleep \/ B_ExitLockJs \/ B_Shutdown

NextRestart ==
    \/ init_while_running
    \/ start_while_running
    \/ stop_while_running
    \/ DispatcherIdle
    \/ HandlerIdle

SpecRestart == InitRestart /\ [][NextRestart]_vars

\* the runtime keeps polling both loops
SpecRestartFair ==
    SpecRestart /\ WF_vars(DispatcherIdle) /\ WF_vars(HandlerIdle)

\* C34 (as claimed): after a stop both loops of the manager that was running
\* eventually exit, whatever is called afterwards.
C34_StoppedLoopsExit ==
    (host.last.op = "stop") ~> (pcA = "done" /\ pcB = "done")

\* ------------------------------------------------- the fallback guarantee
\* client 1 has returned from get(K, GetOk) called right after an insert on
\* K that found an Ok revision of K in the tree
GetOkAfterInsert ==
    /\ Returned("get_GetOk")
    /\ cl[1].prev.op = "insert"
    /\ cl[1].prev.key = cl[1].key
    /\ cl[1].prev.prevOk # NoneEntry

\* C37 (as claimed): once K has an Ok revision, get(K, GetOk) succeeds after
\* every further insert on K, Ok or error, also after an insert that wraps
\* the revision counter; after the insert of an error entry it returns the
\* Ok entry that was the latest before.
C37_FallbackKept ==
    GetOkAfterInsert =>
        /\ cl[1].ret.status = "ok"
        /\ ~cl[1].prev.data.ok => cl[1].ret = RetEntry(cl[1].prev.prevOk)

\* ----------------------------------------------- a reader beside the writer
\* Client 1 is the one writer of the key and inserts, client 2 reads with
\* get(K, GetOk) as try_get_chain_registry does; the adapter calls of the two
\* are interleaved in any order. A get begins between two inserts, so the
\* inserts it can overlap are those that begin while it runs.
NextStoreRead ==
    \/ Room /\ insert(1)
    \/ insert_rev(1)
    \/ insert_entry(1)
    \/ insert_index(1)
    \/ get_index_of_ok_result(1)
    \/ cleanup_revision_history(1)
    \/ cl[1].pc = "idle" /\ get_GetOk(2)
    \/ get_rev(2)
    \/ get_ok(2)

SpecStoreRead == InitStore /\ [][NextStoreRead]_vars

\* the reader has returned from a get(K, GetOk) that began when K had an Ok
\* revision, and the only insert on K that began since is an insert of Ok
\* data (it began at the revision index the get began at)
ReadBesideInsert ==
    /\ cl[2].pc = "idle"
    /\ cl[2].op = "get_GetOk"
    /\ cl[2].prevOk # NoneEntry
    /\ cl[1].op = "insert"
    /\ cl[1].key = cl[2].key
    /\ cl[1].data.ok
    /\ cl[1].rev0 = cl[2].rev0

\* C38 (as claimed): a get(K, GetOk) that runs beside one insert(K, Ok(v)) of
\* the key's writer, with an Ok revision of K in the tree before the insert
\* began, returns an Ok entry, the old one or the new one, and never fails.
C38_ReaderFindsOk ==
    ReadBesideInsert =>
        /\ cl[2].ret.status = "ok"
        /\ cl[2].ret.entry \in {cl[2].prevOk, cl[1].data}

\* ------------------------------------------------ adapter calls that fail
\* the sled adapter call that client p's insert is about to make returns an
\* error and leaves the tree as it is: the ? operator makes insert return
\* the error at once
insert_fails(p) ==
    LET c == cl[p]
    IN  /\ c.op = "insert"
        /\ c.pc \in {"insert_rev", "insert_wipe", "insert_entry",
                     "insert_index", "cleanup_revision_history"}
        /\ cl' = [cl EXCEPT ![p] = [c EXCEPT !.pc = "idle", !.ret = RetFail]]
        /\ UNCHANGED <<libVars, mgrVars, rev_index, entries, writes, subscriber>>

\* the read of a cell in get_index_of_ok_result fails: its error is taken
\* by unwrap_or(max_index) and the cleanup goes on from max_index
get_index_of_ok_result_fails(p) ==
    LET c == cl[p]
    IN  /\ c.op = "insert"
        /\ c.pc = "get_index_of_ok_result"
        /\ cl' = [cl EXCEPT ![p] = CleanupFrom(c, c.idx)]
        /\ UNCHANGED <<libVars, mgrVars, rev_index, entries, writes, subscriber>>

\* one client reads with get(K, Get) and inserts, and any adapter call of an
\* insert can fail
NextStoreFail ==
    \/ get(1)
    \/ get_rev(1)
    \/ get_entry(1)
    \/ insert(1)
    \/ insert_rev(1)
    \/ insert_wipe(1)
    \/ insert_entry(1)
    \/ insert_index(1)
    \/ get_index_of_ok_result(1)
    \/ cleanup_revision_history(1)
    \/ insert_fails(1)
    \/ get_index_of_ok_result_fails(1)

SpecStoreFail == InitStore /\ [][NextStoreFail]_vars

\* what get(k, Get) returns when no other call is in progress: the entry at
\* the index in rev_index_<k> (0 if there is none), KeyDoesNotExist if the
\* cell is not there
GetNow(k) ==
    LET index == IF rev_index[k] = NoRev THEN 0 ELSE rev_index[k]
        item == entries[k][index]
    IN  IF item # NoneEntry THEN item ELSE KeyDoesNotExist

\* client 1 has returned with an error from an insert on K that it called
\* right after a get(K, Get)
FailedAfterGet ==
    /\ Returned("insert")
    /\ cl[1].ret = RetFail
    /\ cl[1].prev.op = "get_Get"
    /\ cl[1].prev.key = cl[1].key

\* C39 (as claimed): after an insert on K has returned an error because one
\* of its adapter calls failed, get(K, Get) returns the entry it returned
\* before the insert was called.
C39_FailedInsertInvisible ==
    FailedAfterGet => RetEntry(GetNow(cl[1].key)) = cl[1].prev.ret

====
